---- MODULE Spec2Model ----
(***************************************************************************)
(* A model of lumibot's BacktestingBroker                                  *)
(* (src/lumibot/backtesting/backtesting_broker.py): the virtual clock, the *)
(* order book, the per-bar fill rules, option cash settlement and the      *)
(* trade events the broker publishes.                                      *)
(*                                                                         *)
(* Times are seconds since datetime_start's midnight.  Money is kept in    *)
(* hundredths of a price unit, so that a percent fee is an exact integer.  *)
(***************************************************************************)
EXTENDS Integers, Sequences, FiniteSets, TLC

VARIABLES
    datetime,        \* data_source.get_datetime(): the virtual clock
    orders,          \* every Order object created so far, by identifier
    new_orders,      \* broker._new_orders: identifiers, in insertion order
    positions,       \* broker._filled_positions: asset -> signed quantity
    cash,            \* strategy.cash, in hundredths
    stream,          \* history of the event stream: what was dispatched
    error,           \* the exception that ended the run, or "none"
    fn               \* arguments and result of a fill rule applied on its own

vars == <<datetime, orders, new_orders, positions, cash, stream, error, fn>>

-----------------------------------------------------------------------------
(* Bounds of the model. *)

MaxOrders == 3          \* Order objects created in one run
MaxCancels == 2         \* cancel_order calls made by the strategy in one run
MaxPrice == 4           \* prices drawn for a fill rule applied on its own
MaxTriggerOrders == 2   \* stop_limit and trailing_stop orders in one run
MaxFees == 2            \* fees in a strategy's fee list
MaxQuantity == 2        \* quantity of an order whose trade cost is computed
MaxFaultEvents == 3     \* fills and settlements published in a run with faults

-----------------------------------------------------------------------------
(* Values. *)

\* Python's None for an optional price; real prices are >= 1.
None == 0

SecondsPerMinute == 60
SecondsPerDay == 86400

Sides == {"buy", "sell"}

\* Order.status and the names of the trade events.
UNPROCESSED == "unprocessed"
NEW_ORDER == "new"
FILLED_ORDER == "fill"
CANCELED_ORDER == "canceled"
CASH_SETTLED == "cash_settled"

-----------------------------------------------------------------------------
(* The inputs of a run: assets, bars, market calendar, strategy settings.  *)

Assets == {"STK", "OPT", "PUT", "FAR", "IPO"}

\* Asset: the options are on STK (dates count from 1).  OPT is a CALL
\* expiring on the first day, PUT a PUT expiring on the first day and FAR a
\* CALL expiring on the second day.  IPO is a stock whose data starts later
\* than the run.
AssetOf(a) ==
    IF a = "OPT"
    THEN [symbol |-> "STK", asset_type |-> "option", expiration |-> 1,
          strike |-> 2, right |-> "CALL", multiplier |-> 100]
    ELSE IF a = "PUT"
    THEN [symbol |-> "STK", asset_type |-> "option", expiration |-> 1,
          strike |-> 4, right |-> "PUT", multiplier |-> 100]
    ELSE IF a = "FAR"
    THEN [symbol |-> "STK", asset_type |-> "option", expiration |-> 2,
          strike |-> 5, right |-> "CALL", multiplier |-> 100]
    ELSE [symbol |-> a, asset_type |-> "stock", expiration |-> None,
          strike |-> None, right |-> "", multiplier |-> 1]

Bar(index, open, high, low, close) ==
    [index |-> index, open |-> open, high |-> high, low |-> low, close |-> close]

\* The OHLC rows the data source holds, by ascending index.  The tables have
\* gaps: no row at 64800 (the first close) nor during the night, and the
\* option has no row at 21600 either.
BarsOf(a) ==
    IF a = "STK"
    THEN << Bar(0,      3, 4, 2, 3),
            Bar(21600,  3, 3, 3, 3),
            Bar(43200,  3, 5, 1, 4),
            Bar(108000, 5, 6, 4, 5) >>
    ELSE IF a = "IPO"
    THEN << Bar(43200,  2, 2, 2, 2),
            Bar(108000, 2, 3, 2, 3) >>
    ELSE << Bar(0,      1, 1, 1, 1),
            Bar(43200,  1, 2, 1, 2),
            Bar(108000, 2, 3, 1, 1) >>

\* broker._trading_days: the sessions of the market calendar, in order.
TradingDays ==
    << [market_open |-> 21600,  market_close |-> 64800],
       [market_open |-> 108000, market_close |-> 129600] >>

datetime_start == 0
datetime_end == 129600

\* The strategy's loop sleeps this long between iterations.
Sleeptime == 21600

\* minutes handed to _await_market_to_open / _await_market_to_close
Offsets == {0, 360, 720}

\* TradingFee: flat_fee in hundredths, percent_fee in percent.
TradingFee(flat_fee, percent_fee, taker, maker) ==
    [flat_fee |-> flat_fee, percent_fee |-> percent_fee, taker |-> taker, maker |-> maker]

buy_trading_fees ==
    << TradingFee(100, 0, TRUE, TRUE), TradingFee(0, 1, TRUE, FALSE) >>

sell_trading_fees ==
    << TradingFee(0, 2, FALSE, TRUE) >>

minutes_before_closing == 5

initial_cash == 100000

-----------------------------------------------------------------------------
(* The fill rules (pure functions of the order's price and the bar). *)

\* a boundary slip: the range test made strict
limit_order_open_range(limit_price, side, open_, high, low) ==
    IF side = "sell" /\ limit_price <= open_ THEN open_
    ELSE IF side = "buy" /\ limit_price >= open_ THEN open_
    ELSE IF low < limit_price /\ limit_price < high THEN limit_price
    ELSE None

\* a slip: a gap filled at the limit price, not at the open
limit_order_gap_at_limit(limit_price, side, open_, high, low) ==
    IF side = "sell" /\ limit_price <= open_ THEN limit_price
    ELSE IF side = "buy" /\ limit_price >= open_ THEN limit_price
    ELSE IF low <= limit_price /\ limit_price <= high THEN limit_price
    ELSE None

limit_order(limit_price, side, open_, high, low) ==
    IF side = "sell" /\ limit_price <= open_ THEN open_
    ELSE IF side = "buy" /\ limit_price >= open_ THEN open_
    ELSE IF low <= limit_price /\ limit_price <= high THEN limit_price
    ELSE None

\* a slip: the range test made before the gap tests
stop_order_range_first(stop_price, side, open_, high, low) ==
    IF low <= stop_price /\ stop_price <= high THEN stop_price
    ELSE IF side = "sell" /\ stop_price >= open_ THEN open_
    ELSE IF side = "buy" /\ stop_price <= open_ THEN open_
    ELSE None

stop_order(stop_price, side, open_, high, low) ==
    IF side = "sell" /\ stop_price >= open_ THEN open_
    ELSE IF side = "buy" /\ stop_price <= open_ THEN open_
    ELSE IF low <= stop_price /\ stop_price <= high THEN stop_price
    ELSE None

-----------------------------------------------------------------------------
(* Orders.  An Order is a record; its identifier is its index in orders.   *)

\* the keyword arguments of Order(...) / strategy.create_order(...)
Kw(limit_price, stop_price, trail_price) ==
    [limit_price |-> limit_price, stop_price |-> stop_price, trail_price |-> trail_price,
     order_class |-> "", stop_loss_price |-> None, stop_loss_limit_price |-> None,
     take_profit_price |-> None]

\* Order.__init__ infers the type from the prices it is given.
OrderType(kw) ==
    IF kw.trail_price # None THEN "trailing_stop"
    ELSE IF kw.stop_price # None /\ kw.limit_price # None THEN "stop_limit"
    ELSE IF kw.stop_price # None THEN "stop"
    ELSE IF kw.limit_price # None THEN "limit"
    ELSE "market"

Order(asset, quantity, side, kw) ==
    [asset |-> asset, quantity |-> quantity, side |-> side, type |-> OrderType(kw),
     order_class |-> kw.order_class,
     limit_price |-> kw.limit_price, stop_price |-> kw.stop_price,
     trail_price |-> kw.trail_price,
     stop_loss_price |-> kw.stop_loss_price,
     stop_loss_limit_price |-> kw.stop_loss_limit_price,
     take_profit_price |-> kw.take_profit_price,
     status |-> UNPROCESSED, transmitted |-> FALSE,
     price_triggered |-> FALSE, trail_stop_price |-> None,
     dependent_order |-> None, dependent_order_filled |-> FALSE,
     trade_cost |-> 0, fill_price |-> None]

\* Order.update_trail_stop_price: the trail only ever tightens.
update_trail_stop_price(o, price) ==
    IF o.trail_price = None THEN o
    ELSE IF o.side = "buy"
    THEN LET new == price + o.trail_price
         IN  IF o.trail_stop_price = None \/ new < o.trail_stop_price
             THEN [o EXCEPT !.trail_stop_price = new] ELSE o
    ELSE LET new == price - o.trail_price
         IN  IF o.trail_stop_price = None \/ new > o.trail_stop_price
             THEN [o EXCEPT !.trail_stop_price = new] ELSE o

\* Order.is_active(): not yet filled or canceled
IsActive(o) == o.status \in {UNPROCESSED, NEW_ORDER}

\* what the stream remembers of one order: how many events of each kind were
\* dispatched for it, whether a pass has run since it was submitted, and
\* whether cancel_order was called on it before any such pass
NoHistory ==
    [new |-> 0, fill |-> 0, canceled |-> 0, seen_pass |-> FALSE, early_cancel |-> FALSE]

\* The broker, strategy and data source as one value b.
Broker ==
    [datetime |-> datetime, orders |-> orders, new_orders |-> new_orders,
     positions |-> positions, cash |-> cash, stream |-> stream, error |-> error]

\* a new Order object enters the heap
CreateOrder(b, o) ==
    [b EXCEPT !.orders = Append(@, o), !.stream.of = Append(@, NoHistory)]

-----------------------------------------------------------------------------
(* SafeList: the tracked collections.                                      *)

SafeListAppend(list, id) ==
    IF \E i \in 1..Len(list) : list[i] = id THEN list ELSE Append(list, id)

SafeListRemove(list, id) == SelectSeq(list, LAMBDA x : x # id)

\* broker.get_tracked_orders(strategy.name): the tracked set, in insertion
\* order; the handlers change an order's status and leave it in the set
get_tracked_orders(b) == b.new_orders

-----------------------------------------------------------------------------
(* Broker._process_trade_event: what the four stream handlers forward to.  *)

_process_new_order(b, id) ==
    [b EXCEPT !.orders[id].status = NEW_ORDER,
              !.new_orders = SafeListAppend(@, id),
              !.stream.inserted = SafeListAppend(@, id)]

_process_canceled_order(b, id) ==
    IF IsActive(b.orders[id])
    THEN [b EXCEPT !.orders[id].status = CANCELED_ORDER]
    ELSE b

\* the position of an asset grows by a signed quantity; at zero it is dropped
AddToPosition(pos, asset, side, quantity) ==
    [pos EXCEPT ![asset] = IF side = "buy" THEN @ + quantity ELSE @ - quantity]

_process_filled_order(b, id, price, filled_quantity) ==
    LET o == b.orders[id]
        notional == price * filled_quantity * AssetOf(o.asset).multiplier * 100
    IN  [b EXCEPT !.orders[id].status = FILLED_ORDER,
                  !.orders[id].fill_price = price,
                  !.positions = AddToPosition(@, o.asset, o.side, filled_quantity),
                  !.cash = IF o.side = "buy" THEN @ - notional ELSE @ + notional]

_process_cash_settlement(b, settle) ==
    [b EXCEPT !.positions =
                  AddToPosition(@, settle.asset, settle.side, settle.filled_quantity)]

\* what the history of the stream records of a dispatch
Published(b, event, id) ==
    IF event = NEW_ORDER THEN [b EXCEPT !.stream.of[id].new = @ + 1]
    ELSE IF event = CANCELED_ORDER THEN [b EXCEPT !.stream.of[id].canceled = @ + 1]
    ELSE [b EXCEPT !.stream.of[id].fill = @ + 1,
                   !.stream.pass_fills = Append(@, id)]

_process_trade_event(b, event, id, price, filled_quantity) ==
    IF event = NEW_ORDER THEN _process_new_order(b, id)
    ELSE IF event = CANCELED_ORDER THEN _process_canceled_order(b, id)
    ELSE _process_filled_order(b, id, price, filled_quantity)

\* on_trade_event: _process_trade_event inside try / except; stream.faults
\* holds the events whose processing raises in this run, and an exception
\* is logged and dropped (it is taken to be raised before any change)
on_trade_event(b, event, id, price, filled_quantity) ==
    IF event \in b.stream.faults THEN b
    ELSE _process_trade_event(b, event, id, price, filled_quantity)

\* a slip: the handler lets the exception out to the dispatcher
dispatch_uncaught(b, event, id, price, filled_quantity) ==
    IF event \in b.stream.faults
    THEN [Published(b, event, id) EXCEPT !.error = "Exception"]
    ELSE on_trade_event(Published(b, event, id), event, id, price, filled_quantity)

\* stream.dispatch(event, order=...): handled at once, in the same thread
dispatch(b, event, id, price, filled_quantity) ==
    on_trade_event(Published(b, event, id), event, id, price, filled_quantity)

\* the CASH_SETTLED handler, with the same try / except
on_cash_settled(b, settle) ==
    IF CASH_SETTLED \in b.stream.faults THEN b
    ELSE _process_cash_settlement(b, settle)

dispatch_cash_settled(b, settle) ==
    on_cash_settled([b EXCEPT !.stream.settled = Append(@, settle)], settle)

-----------------------------------------------------------------------------
(* The backtesting data source.                                            *)

\* how many rows of an asset have an index at or before t
RowsUpTo(rows, t) == Cardinality({i \in 1..Len(rows) : rows[i].index <= t})

\* data_source._timestep
timestep == "minute"

\* strategy.get_historical_prices(asset, length, timeshift=...): the rows
\* [end_row - length, end_row) counted from 0, where end_row is the row of the
\* current bar minus timeshift; <<>> stands for None (no data yet)
get_historical_prices(b, asset, length, timeshift) ==
    LET rows == BarsOf(asset)
        n == RowsUpTo(rows, b.datetime)
        end_row == (n - 1) - timeshift
        start_row == IF end_row - length < 0 THEN 0 ELSE end_row - length
        last == IF end_row > Len(rows) THEN Len(rows) ELSE end_row
    IN  IF n = 0 THEN <<>> ELSE SubSeq(rows, start_row + 1, last)

\* broker.get_last_price(asset): the close of the bar covering now
get_last_price(b, asset) ==
    LET rows == BarsOf(asset)
        n == RowsUpTo(rows, b.datetime)
    IN  IF n = 0 THEN None ELSE rows[n].close

\* data_source._update_datetime(new_datetime): stores what it is given
DataSourceUpdateDatetime(b, new_datetime) == [b EXCEPT !.datetime = new_datetime]

\* datetime.date(): the calendar day, counted from 1
Date(t) == t \div SecondsPerDay + 1

-----------------------------------------------------------------------------
(* Clock functions of the broker.                                          *)

_update_datetime(b, update_dt) ==
    DataSourceUpdateDatetime(b, b.datetime + update_dt)

\* a slip: the end itself not counted as reached
should_continue_past_end(b) == ~(b.datetime > datetime_end)

should_continue(b) == ~(b.datetime >= datetime_end)

\* is_market_open on the calendar trading_days at the clock value now
is_market_open_in(trading_days, now) ==
    \E i \in 1..Len(trading_days) :
        /\ now >= trading_days[i].market_open
        /\ now < trading_days[i].market_close

is_market_open(b) == is_market_open_in(TradingDays, b.datetime)

\* search.iloc[0]: the first session of a search of the calendar, or 0 when
\* the search is empty
FirstSession(search) ==
    IF search = {} THEN 0
    ELSE CHOOSE i \in search : \A j \in search : i <= j

\* get_time_to_open at the clock value now of a backtest that started at start
get_time_to_open_from(start, now) ==
    LET i == FirstSession({d \in 1..Len(TradingDays) : now < TradingDays[d].market_close})
    IN  IF i = 0 THEN 0
        ELSE LET open_time == IF now > TradingDays[i].market_open
                              THEN start
                              ELSE TradingDays[i].market_open
             IN  IF now >= open_time THEN 0 ELSE open_time - now

get_time_to_open(b) == get_time_to_open_from(datetime_start, b.datetime)

\* get_time_to_close on the calendar trading_days at the clock value now;
\* [none |-> TRUE] stands for the None returned before the session opens
get_time_to_close_in(trading_days, now) ==
    LET i == FirstSession({d \in 1..Len(trading_days) : now <= trading_days[d].market_close})
    IN  IF i = 0 THEN [none |-> FALSE, seconds |-> 0]
        ELSE IF now < trading_days[i].market_open THEN [none |-> TRUE, seconds |-> 0]
        ELSE [none |-> FALSE, seconds |-> trading_days[i].market_close - now]

get_time_to_close(b) == get_time_to_close_in(TradingDays, b.datetime)

-----------------------------------------------------------------------------
(* Order derivation and submission.                                        *)

\* _new_orders.append(order), with the order in which identifiers entered
Track(b, id) ==
    [b EXCEPT !.new_orders = SafeListAppend(@, id),
              !.stream.inserted = SafeListAppend(@, id)]

RECURSIVE TrackAll(_, _)
TrackAll(b, ids) ==
    IF ids = <<>> THEN b ELSE TrackAll(Track(b, Head(ids)), Tail(ids))

\* a slip: the children of a bracket order left without their links
_flatten_order_unlinked(b, id) ==
    LET o == b.orders[id]
        n == Len(b.orders)
        side == IF o.side = "buy" THEN "sell" ELSE "buy"
        has_stop == o.order_class = "bracket"
                        \/ (o.order_class = "oto" /\ o.stop_loss_price # None)
        has_limit == o.order_class = "bracket"
                        \/ (o.order_class = "oto" /\ o.take_profit_price # None)
        b1 == IF has_stop
              THEN CreateOrder(b, Order(o.asset, o.quantity, side,
                                        Kw(o.stop_loss_limit_price, o.stop_loss_price, None)))
              ELSE b
        b2 == IF has_limit
              THEN CreateOrder(b1, Order(o.asset, o.quantity, side,
                                         Kw(o.take_profit_price, None, None)))
              ELSE b1
    IN  IF o.order_class \in {"bracket", "oto"}
        THEN [b |-> b2,
              orders |-> (IF has_stop THEN <<n + 1>> ELSE <<>>)
                             \o (IF has_limit
                                 THEN <<IF has_stop THEN n + 2 ELSE n + 1>>
                                 ELSE <<>>)]
        ELSE [b |-> b, orders |-> <<id>>]

\* a slip: the limit child of an OCO order linked to the parent, a chain
_flatten_order_chained(b, id) ==
    LET o == b.orders[id]
        n == Len(b.orders)
    IN  IF o.order_class = "oco"
        THEN [b |-> CreateOrder(
                        CreateOrder(b, [Order(o.asset, o.quantity, o.side,
                                              Kw(None, o.stop_loss_price, None))
                                           EXCEPT !.dependent_order = n + 2]),
                        [Order(o.asset, o.quantity, o.side,
                               Kw(o.take_profit_price, None, None))
                            EXCEPT !.dependent_order = id]),
              orders |-> <<n + 1, n + 2>>]
        ELSE [b |-> b, orders |-> <<id>>]

\* _flatten_order: the derived orders, as the broker state holding the new
\* Order objects and the list of their identifiers
_flatten_order(b, id) ==
    LET o == b.orders[id]
        n == Len(b.orders)
    IN  IF o.order_class = ""
        THEN IF o.stop_price # None
             THEN [b |-> CreateOrder(b, Order(o.asset, o.quantity, o.side,
                                              Kw(None, o.stop_price, None))),
                   orders |-> <<id, n + 1>>]
             ELSE [b |-> b, orders |-> <<id>>]
        ELSE IF o.order_class = "oco"
        THEN LET stop_loss_order == [Order(o.asset, o.quantity, o.side,
                                           Kw(None, o.stop_loss_price, None))
                                        EXCEPT !.dependent_order = n + 2]
                 limit_order_ == [Order(o.asset, o.quantity, o.side,
                                        Kw(o.take_profit_price, None, None))
                                     EXCEPT !.dependent_order = n + 1]
             IN  [b |-> CreateOrder(CreateOrder(b, stop_loss_order), limit_order_),
                  orders |-> <<n + 1, n + 2>>]
        ELSE LET side == IF o.side = "buy" THEN "sell" ELSE "buy"
                 has_stop == o.order_class = "bracket"
                                 \/ (o.order_class = "oto" /\ o.stop_loss_price # None)
                 has_limit == o.order_class = "bracket"
                                 \/ (o.order_class = "oto" /\ o.take_profit_price # None)
                 stop_id == n + 1
                 limit_id == IF has_stop THEN n + 2 ELSE n + 1
                 linked == o.order_class = "bracket"
                 stop_loss_order == [Order(o.asset, o.quantity, side,
                                           Kw(o.stop_loss_limit_price, o.stop_loss_price, None))
                                        EXCEPT !.dependent_order =
                                                   IF linked THEN limit_id ELSE None]
                 limit_order_ == [Order(o.asset, o.quantity, side,
                                        Kw(o.take_profit_price, None, None))
                                     EXCEPT !.dependent_order =
                                                IF linked THEN stop_id ELSE None]
                 b1 == IF has_stop THEN CreateOrder(b, stop_loss_order) ELSE b
                 b2 == IF has_limit THEN CreateOrder(b1, limit_order_) ELSE b1
             IN  [b |-> b2,
                  orders |-> (IF has_stop THEN <<stop_id>> ELSE <<>>)
                                 \o (IF has_limit THEN <<limit_id>> ELSE <<>>)]

\* BacktestingBroker.submit_order: order.update_raw(order), then NEW_ORDER
submit_order(b, id) ==
    dispatch([b EXCEPT !.orders[id].transmitted = TRUE], NEW_ORDER, id, None, None)

\* a slip: the OCO parent is left in _new_orders beside its children
ReplaceByChildrenKeepingParent(f, id) == TrackAll(f.b, f.orders)

\* the OCO parent is replaced in _new_orders by its two children
ReplaceByChildren(f, id) ==
    [TrackAll(f.b, f.orders) EXCEPT !.new_orders = SafeListRemove(@, id)]

\* what the wrapper does with the order submit_order returned
AfterSubmit(b, id) ==
    IF b.orders[id].transmitted /\ b.orders[id].order_class = "oco"
    THEN ReplaceByChildren(_flatten_order(b, id), id)
    ELSE Track(b, id)

\* the wrapper __getattribute__ puts around submit_order
new_func(b, id) == AfterSubmit(submit_order(b, id), id)

\* a slip: cancel_order that does nothing
cancel_order_noop(b, id) == b

\* a slip: cancel_order that charges a flat fee on every call
cancel_order_charging(b, id) ==
    LET b1 == dispatch(b, CANCELED_ORDER, id, None, None)
    IN  [b1 EXCEPT !.cash = @ - 100]

cancel_order(b, id) == dispatch(b, CANCELED_ORDER, id, None, None)

-----------------------------------------------------------------------------
(* Option expiration and cash settlement.                                  *)

Abs(x) == IF x < 0 THEN 0 - x ELSE x

\* a slip: the profit or loss left as computed, without the clip
ClippedProfitLossRaw(a, quantity, underlying_price) ==
    (IF a.right = "CALL" THEN underlying_price - a.strike
     ELSE a.strike - underlying_price) * quantity * a.multiplier

\* the profit or loss of the position, clipped by the side held
ClippedProfitLoss(a, quantity, underlying_price) ==
    LET profit_loss_per_contract ==
            IF a.right = "CALL" THEN underlying_price - a.strike
            ELSE a.strike - underlying_price
        raw == profit_loss_per_contract * quantity * a.multiplier
    IN  IF quantity > 0 /\ raw < 0 THEN 0
        ELSE IF quantity < 0 /\ raw > 0 THEN 0
        ELSE raw

\* a slip: the synthetic order on the side of the position
OffsettingOrderSameSide(asset, a, quantity, profit_loss) ==
    [asset |-> asset, side |-> IF quantity > 0 THEN "buy" ELSE "sell",
     quantity |-> Abs(quantity),
     price |-> Abs(profit_loss) \div (Abs(quantity) * a.multiplier),
     filled_quantity |-> Abs(quantity)]

\* a slip: the offsetting order left without a filled quantity
OffsettingOrderUnfilled(asset, a, quantity, profit_loss) ==
    [asset |-> asset, side |-> IF quantity > 0 THEN "sell" ELSE "buy",
     quantity |-> Abs(quantity),
     price |-> Abs(profit_loss) \div (Abs(quantity) * a.multiplier),
     filled_quantity |-> 0]

\* the offsetting order and the payload of the CASH_SETTLED event
OffsettingOrder(asset, a, quantity, profit_loss) ==
    [asset |-> asset, side |-> IF quantity > 0 THEN "sell" ELSE "buy",
     quantity |-> Abs(quantity),
     price |-> Abs(profit_loss) \div (Abs(quantity) * a.multiplier),
     filled_quantity |-> Abs(quantity)]

cash_settle_options_contract(b, asset) ==
    LET a == AssetOf(asset)
        quantity == b.positions[asset]
        underlying_price == get_last_price(b, a.symbol)
        profit_loss == ClippedProfitLoss(a, quantity, underlying_price)
        b1 == [b EXCEPT !.cash = @ + profit_loss * 100,
                        !.stream.proceeds = @ + profit_loss * 100]
    IN  IF a.asset_type # "option" THEN b
        ELSE IF quantity = 0 THEN [b1 EXCEPT !.error = "ZeroDivisionError"]
        ELSE dispatch_cash_settled(b1, OffsettingOrder(asset, a, quantity, profit_loss))

\* broker.get_tracked_positions(strategy.name): the assets held, in a fixed order
get_tracked_positions(b) ==
    SelectSeq(<<"STK", "OPT", "PUT", "FAR", "IPO">>, LAMBDA a : b.positions[a] # 0)

\* a slip: the wait for the end of the expiration day's session left out
DueOnExpiration(a, now, time_to_close) ==
    /\ a.expiration # None
    /\ a.expiration <= Date(now)
    /\ ~time_to_close.none

\* an expired option is settled once the session is within
\* minutes_before_closing of its close, or on any later day in a session
Due(a, now, time_to_close) ==
    /\ a.expiration # None
    /\ a.expiration <= Date(now)
    /\ ~time_to_close.none
    /\ ~(/\ a.expiration = Date(now)
         /\ time_to_close.seconds > minutes_before_closing * SecondsPerMinute)

RECURSIVE ExpireEach(_, _)
ExpireEach(b, held) ==
    IF held = <<>> \/ b.error # "none" THEN b
    ELSE ExpireEach(IF Due(AssetOf(Head(held)), b.datetime, get_time_to_close(b))
                    THEN cash_settle_options_contract(b, Head(held))
                    ELSE b,
                    Tail(held))

process_expired_option_contracts(b) == ExpireEach(b, get_tracked_positions(b))

-----------------------------------------------------------------------------
(* The trade-cost model.                                                   *)

\* a slip: the fee list of the other side
FeesOfOtherSide(o) ==
    IF o.side = "buy" THEN sell_trading_fees
    ELSE IF o.side = "sell" THEN buy_trading_fees
    ELSE <<>>

\* the fee list of the order's side, of the strategy's two lists
TradingFees(side, buy_fees, sell_fees) ==
    IF side = "buy" THEN buy_fees
    ELSE IF side = "sell" THEN sell_fees
    ELSE <<>>

FeesOf(o) == TradingFees(o.side, buy_trading_fees, sell_trading_fees)

\* a slip: taker and maker exchanged
RECURSIVE SumFeesMakerTaker(_, _, _)
SumFeesMakerTaker(fees, o, price) ==
    IF fees = <<>> THEN 0
    ELSE LET trading_fee == Head(fees)
             charged == \/ (trading_fee.maker /\ o.type \in {"market", "stop"})
                        \/ (trading_fee.taker /\ o.type \in {"limit", "stop_limit"})
         IN  (IF charged
              THEN trading_fee.flat_fee + price * o.quantity * trading_fee.percent_fee
              ELSE 0) + SumFeesMakerTaker(Tail(fees), o, price)

RECURSIVE SumFees(_, _, _)
SumFees(fees, o, price) ==
    IF fees = <<>> THEN 0
    ELSE LET trading_fee == Head(fees)
             charged == \/ (trading_fee.taker /\ o.type \in {"market", "stop"})
                        \/ (trading_fee.maker /\ o.type \in {"limit", "stop_limit"})
         IN  (IF charged
              THEN trading_fee.flat_fee + price * o.quantity * trading_fee.percent_fee
              ELSE 0) + SumFees(Tail(fees), o, price)

\* in hundredths
calculate_trade_cost(o, price) == SumFees(FeesOf(o), o, price)

-----------------------------------------------------------------------------
(* process_pending_orders: one evaluation pass over the open orders.       *)

\* a slip: filled orders taken as pending again
IsPendingOrFilled(o) == o.status \in {UNPROCESSED, NEW_ORDER, FILLED_ORDER}

\* order.status in ["unprocessed", "new"]
IsPending(o) == o.status \in {UNPROCESSED, NEW_ORDER}

RECURSIVE Reverse(_)
Reverse(seq) == IF seq = <<>> THEN <<>> ELSE Append(Reverse(Tail(seq)), Head(seq))

\* a slip: the newest order first
PendingOrdersReversed(b) ==
    Reverse(SelectSeq(get_tracked_orders(b), LAMBDA id : IsPending(b.orders[id])))

PendingOrders(b) ==
    SelectSeq(get_tracked_orders(b), LAMBDA id : IsPending(b.orders[id]))

\* the row the order is evaluated on: the first fetched row at or after now,
\* else the last fetched row
SelectBar(ohlc, now) ==
    LET df == SelectSeq(ohlc, LAMBDA row : row.index >= now)
    IN  IF df = <<>> THEN ohlc[Len(ohlc)] ELSE df[1]

\* a slip: a market order filled at the close of the bar
MarketPriceAtClose(o, bar) == [price |-> bar.close, order |-> o, raised |-> FALSE]

\* a market order: price = open
MarketPrice(o, bar) == [price |-> bar.open, order |-> o, raised |-> FALSE]

\* a slip: the limit rule of a triggering bar applied to the bar's open
StopLimitPriceAtOpen(o, bar) ==
    IF ~o.price_triggered
    THEN IF stop_order(o.stop_price, o.side, bar.open, bar.high, bar.low) # None
         THEN [price |-> limit_order(o.limit_price, o.side, bar.open, bar.high, bar.low),
               order |-> [o EXCEPT !.price_triggered = TRUE], raised |-> FALSE]
         ELSE [price |-> None, order |-> o, raised |-> FALSE]
    ELSE [price |-> limit_order(o.limit_price, o.side, bar.open, bar.high, bar.low),
          order |-> o, raised |-> FALSE]

\* a slip: the trigger is latched only when the order fills
StopLimitPriceLatchOnFill(o, bar) ==
    IF ~o.price_triggered
    THEN IF stop_order(o.stop_price, o.side, bar.open, bar.high, bar.low) # None
         THEN [price |-> limit_order(o.limit_price, o.side,
                                     stop_order(o.stop_price, o.side, bar.open,
                                                bar.high, bar.low),
                                     bar.high, bar.low),
               order |-> [o EXCEPT !.price_triggered =
                              limit_order(o.limit_price, o.side,
                                          stop_order(o.stop_price, o.side, bar.open,
                                                     bar.high, bar.low),
                                          bar.high, bar.low) # None],
               raised |-> FALSE]
         ELSE [price |-> None, order |-> o, raised |-> FALSE]
    ELSE [price |-> limit_order(o.limit_price, o.side, bar.open, bar.high, bar.low),
          order |-> o, raised |-> FALSE]

\* a slip: a stop_limit order filled at its trigger price as a stop order is
TriggeredAtStop(o, bar, trigger) ==
    IF trigger # None
    THEN [price |-> trigger,
          order |-> [o EXCEPT !.price_triggered = TRUE], raised |-> FALSE]
    ELSE [price |-> None, order |-> o, raised |-> FALSE]

\* the limit rule of a stop_limit order whose stop gave the price trigger
TriggeredLimit(o, bar, trigger) ==
    IF trigger # None
    THEN [price |-> limit_order(o.limit_price, o.side, trigger, bar.high, bar.low),
          order |-> [o EXCEPT !.price_triggered = TRUE], raised |-> FALSE]
    ELSE [price |-> None, order |-> o, raised |-> FALSE]

\* a stop_limit order: the stop rule until it triggers, then the limit rule
StopLimitPrice(o, bar) ==
    IF ~o.price_triggered
    THEN TriggeredLimit(o, bar,
                        stop_order(o.stop_price, o.side, bar.open, bar.high, bar.low))
    ELSE [price |-> limit_order(o.limit_price, o.side, bar.open, bar.high, bar.low),
          order |-> o, raised |-> FALSE]

\* the trail moved by a bar: from the high for a sell, from the low for a buy
TrailUpdated(o, bar) ==
    IF o.side = "sell" THEN update_trail_stop_price(o, bar.high)
    ELSE IF o.side = "buy" THEN update_trail_stop_price(o, bar.low)
    ELSE o

\* a slip: the trail is moved before the stop check
TrailingStopPriceUpdateFirst(o, bar) ==
    [price |-> IF TrailUpdated(o, bar).trail_stop_price # None
               THEN stop_order(TrailUpdated(o, bar).trail_stop_price, o.side,
                               bar.open, bar.high, bar.low)
               ELSE None,
     order |-> TrailUpdated(o, bar),
     raised |-> FALSE]

\* a trailing_stop order: the stop check on the trail held so far, then the
\* update of the trail
TrailingStopPrice(o, bar) ==
    [price |-> IF o.trail_stop_price # None
               THEN stop_order(o.trail_stop_price, o.side, bar.open, bar.high, bar.low)
               ELSE None,
     order |-> TrailUpdated(o, bar),
     raised |-> FALSE]

\* a slip: an order of an unknown type priced as a market order
FillPriceOrMarket(o, bar) ==
    IF o.type = "limit"
    THEN [price |-> limit_order(o.limit_price, o.side, bar.open, bar.high, bar.low),
          order |-> o, raised |-> FALSE]
    ELSE IF o.type = "stop"
    THEN [price |-> stop_order(o.stop_price, o.side, bar.open, bar.high, bar.low),
          order |-> o, raised |-> FALSE]
    ELSE IF o.type = "stop_limit" THEN StopLimitPrice(o, bar)
    ELSE IF o.type = "trailing_stop" THEN TrailingStopPrice(o, bar)
    ELSE MarketPrice(o, bar)

\* the transaction price of an order on a bar (None: no fill), and the order
\* as the evaluation leaves it
FillPrice(o, bar) ==
    IF o.type = "market"
    THEN MarketPrice(o, bar)
    ELSE IF o.type = "limit"
    THEN [price |-> limit_order(o.limit_price, o.side, bar.open, bar.high, bar.low),
          order |-> o, raised |-> FALSE]
    ELSE IF o.type = "stop"
    THEN [price |-> stop_order(o.stop_price, o.side, bar.open, bar.high, bar.low),
          order |-> o, raised |-> FALSE]
    ELSE IF o.type = "stop_limit" THEN StopLimitPrice(o, bar)
    ELSE IF o.type = "trailing_stop" THEN TrailingStopPrice(o, bar)
    ELSE [price |-> None, order |-> o, raised |-> TRUE]

\* a slip: the sibling is left alone
CancelDependentForgotten(b, id) == b

\* the sibling of a filling order is marked and canceled
CancelDependent(b, id) ==
    IF b.orders[id].dependent_order # None
    THEN cancel_order(
             [b EXCEPT !.orders[b.orders[id].dependent_order].dependent_order_filled = TRUE],
             b.orders[id].dependent_order)
    ELSE b

\* a bracket or OTO parent that fills sends its children to the broker
TrackDerived(f) == TrackAll(f.b, f.orders)

\* a slip: the children of a filling parent are never sent
SendChildrenForgotten(b, id) == b

SendChildren(b, id) ==
    IF b.orders[id].order_class \in {"bracket", "oto"}
    THEN TrackDerived(_flatten_order(b, id))
    ELSE b

\* a slip: the trade cost is kept on the order and never taken from the cash
PublishFillFree(b, id, price, trade_cost) ==
    dispatch([b EXCEPT !.orders[id].trade_cost = trade_cost],
             FILLED_ORDER, id, price, b.orders[id].quantity)

\* a slip: the fill published for less than the order's quantity
PublishFillPartial(b, id, price, trade_cost) ==
    dispatch([b EXCEPT !.cash = @ - trade_cost, !.orders[id].trade_cost = trade_cost],
             FILLED_ORDER, id, price, b.orders[id].quantity - 1)

\* the trade cost is taken from the cash, kept on the order, and the fill
\* is published for the order's whole quantity
PublishFill(b, id, price, trade_cost) ==
    dispatch([b EXCEPT !.cash = @ - trade_cost, !.orders[id].trade_cost = trade_cost],
             FILLED_ORDER, id, price, b.orders[id].quantity)

\* the order is filled at price
FillOrder(b, id, price) ==
    PublishFill(SendChildren(CancelDependent(b, id), id), id, price,
                calculate_trade_cost(b.orders[id], price))

\* an order of the snapshot that a sibling's fill has canceled meanwhile
Skipped(o) == o.dependent_order_filled \/ o.status = CANCELED_ORDER

\* the order as its evaluation on a bar leaves it (trigger latch, trail)
Evaluated(b, id, bar, r) ==
    [b EXCEPT !.orders[id] = r.order,
              !.stream.pass_evals =
                  Append(@, [order |-> id, at |-> b.datetime, index |-> bar.index])]

\* the order is filled when its rule gave a price, and stays pending otherwise
Decide(b, id, bar, r) ==
    IF r.raised THEN [b EXCEPT !.error = "ValueError"]
    ELSE IF r.price # None THEN FillOrder(Evaluated(b, id, bar, r), id, r.price)
    ELSE Evaluated(b, id, bar, r)

EvaluateOnBar(b, id, bar) == Decide(b, id, bar, FillPrice(b.orders[id], bar))

\* ohlc.df of None raises before the order can be canceled
EvaluateOn(b, id, ohlc) ==
    IF ohlc = <<>> THEN [b EXCEPT !.error = "AttributeError"]
    ELSE EvaluateOnBar(b, id, SelectBar(ohlc, b.datetime))

\* the body of the loop over pending_orders
EvaluateOrder(b, id) ==
    IF Skipped(b.orders[id]) THEN b
    ELSE EvaluateOn(b, id, get_historical_prices(b, b.orders[id].asset, 2, 0 - 2))

\* a slip: the loop runs over the tracked orders as they are now, so that
\* orders appended by a fill are evaluated in the same pass
AppendedBy(before, after) ==
    SelectSeq(PendingOrders(after), LAMBDA id : ~\E i \in 1..Len(PendingOrders(before)) :
                                                   PendingOrders(before)[i] = id)

RECURSIVE EvaluateEachLive(_, _)
EvaluateEachLive(b, pending_orders) ==
    IF pending_orders = <<>> \/ b.error # "none" THEN b
    ELSE EvaluateEachLive(EvaluateOrder(b, Head(pending_orders)),
                          Tail(pending_orders)
                              \o AppendedBy(b, EvaluateOrder(b, Head(pending_orders))))

RECURSIVE EvaluateEach(_, _)
EvaluateEach(b, pending_orders) ==
    IF pending_orders = <<>> \/ b.error # "none" THEN b
    ELSE EvaluateEach(EvaluateOrder(b, Head(pending_orders)), Tail(pending_orders))

RECURSIVE SeenPass(_)
SeenPass(of) ==
    IF of = <<>> THEN <<>>
    ELSE <<[Head(of) EXCEPT !.seen_pass = TRUE]>> \o SeenPass(Tail(of))

\* the stream's history starts a new pass: every order has now seen one
StartPass(b) ==
    [b EXCEPT !.stream.pass_fills = <<>>,
              !.stream.pass_evals = <<>>,
              !.stream.of = SeenPass(@)]

EvaluatePending(b) ==
    IF b.error # "none" THEN b ELSE EvaluateEach(b, PendingOrders(b))

process_pending_orders(b) ==
    EvaluatePending(process_expired_option_contracts(StartPass(b)))

\* the clock moves by the time to open less the offset (None and 0 minutes
\* both leave the time to open as it is)
MoveToOpen(b, timedelta) ==
    IF b.error # "none" THEN b
    ELSE _update_datetime(b, get_time_to_open(b) - SecondsPerMinute * timedelta)

\* the same in a backtest that started at start
MoveToOpenFrom(b, start, timedelta) ==
    IF b.error # "none" THEN b
    ELSE _update_datetime(b, get_time_to_open_from(start, b.datetime)
                                 - SecondsPerMinute * timedelta)

_await_market_to_open_from(b, start, timedelta) ==
    IF timestep = "day" THEN b
    ELSE MoveToOpenFrom(process_pending_orders(b), start, timedelta)

\* a slip: the clock moved before the pending orders are processed
_await_market_to_open_then_pass(b, timedelta) ==
    IF timestep = "day" THEN b
    ELSE process_pending_orders(MoveToOpen(b, timedelta))

_await_market_to_open(b, timedelta) ==
    IF timestep = "day" THEN b
    ELSE MoveToOpen(process_pending_orders(b), timedelta)

SecondsOrZero(result) == IF result.none THEN 0 ELSE result.seconds

MoveToClose(b, timedelta) ==
    IF b.error # "none" THEN b
    ELSE _update_datetime(b, SecondsOrZero(get_time_to_close(b))
                                 - SecondsPerMinute * timedelta)

\* a slip: the clock moved before the pending orders are processed
_await_market_to_close_then_pass(b, timedelta) ==
    IF timestep = "day" THEN b
    ELSE process_pending_orders(MoveToClose(b, timedelta))

_await_market_to_close(b, timedelta) ==
    IF timestep = "day" THEN b
    ELSE MoveToClose(process_pending_orders(b), timedelta)

-----------------------------------------------------------------------------
(* The orders a strategy creates in this model.                            *)

Class(kw, order_class, stop_loss_price, stop_loss_limit_price, take_profit_price) ==
    [kw EXCEPT !.order_class = order_class,
               !.stop_loss_price = stop_loss_price,
               !.stop_loss_limit_price = stop_loss_limit_price,
               !.take_profit_price = take_profit_price]

Templates ==
    { Order("STK", 1, "buy", Kw(None, None, None)),
      Order("STK", 1, "sell", Kw(4, None, None)),
      Order("STK", 1, "sell", Class(Kw(None, None, None), "oco", 2, None, 4)),
      Order("STK", 1, "buy", Class(Kw(None, None, None), "bracket", 2, None, 4)),
      Order("OPT", 1, "buy", Kw(None, None, None)) }

\* Order objects an order will still create: the children of a composite
ChildrenOf(o) ==
    IF o.order_class \in {"oco", "bracket"} THEN 2
    ELSE IF o.order_class = "oto"
    THEN (IF o.stop_loss_price # None THEN 1 ELSE 0)
             + (IF o.take_profit_price # None THEN 1 ELSE 0)
    ELSE 0

RECURSIVE Reserved(_, _)
Reserved(os, i) ==
    IF i > Len(os) THEN 0
    ELSE (IF os[i].order_class \in {"bracket", "oto"} /\ IsActive(os[i])
          THEN ChildrenOf(os[i]) ELSE 0) + Reserved(os, i + 1)

-----------------------------------------------------------------------------
(* The state machine.                                                      *)

NoFn == [applied |-> FALSE, limit_price |-> None, side |-> "buy",
         open |-> None, high |-> None, low |-> None, price |-> None]

Init ==
    /\ datetime = datetime_start
    /\ orders = <<>>
    /\ new_orders = <<>>
    /\ positions = [a \in Assets |-> 0]
    /\ cash = initial_cash
    /\ stream = [of |-> <<>>, inserted |-> <<>>, settled |-> <<>>, proceeds |-> 0,
                 pass_fills |-> <<>>, pass_evals |-> <<>>, cancels |-> 0,
                 faults |-> {}]
    /\ error = "none"
    /\ fn = NoFn

Install(b) ==
    /\ datetime' = b.datetime
    /\ orders' = b.orders
    /\ new_orders' = b.new_orders
    /\ positions' = b.positions
    /\ cash' = b.cash
    /\ stream' = b.stream
    /\ error' = b.error
    /\ UNCHANGED fn

\* the clock of the model does not go below its origin
InstallFromStart(b) == b.datetime >= 0 /\ Install(b)

Running == error = "none"

\* the stream's history of the last pass is kept only until the next call
Forget(b) == [b EXCEPT !.stream.pass_fills = <<>>, !.stream.pass_evals = <<>>]

\* the strategy creates an order and submits it
SubmitOrder(catalogue) ==
    \E t \in catalogue :
        /\ Running
        /\ Len(orders) + Reserved(orders, 1) + 1 + ChildrenOf(t) <= MaxOrders
        /\ Install(new_func(CreateOrder(Forget(Broker), t), Len(orders) + 1))

\* the strategy cancels an order it holds
CancelOrder ==
    \E id \in 1..Len(orders) :
        /\ Running
        /\ stream.cancels < MaxCancels
        /\ Install(cancel_order(
               [Forget(Broker) EXCEPT !.stream.cancels = @ + 1,
                              !.stream.of[id].early_cancel =
                                  @ \/ ~stream.of[id].seen_pass],
               id))

\* the start of a trading iteration
ProcessPendingOrders ==
    /\ Running
    /\ Install(process_pending_orders(Broker))

AwaitMarketToOpen(minutes) ==
    \E timedelta \in minutes :
        /\ Running
        /\ InstallFromStart(_await_market_to_open(Broker, timedelta))

AwaitMarketToClose(minutes) ==
    \E timedelta \in minutes :
        /\ Running
        /\ InstallFromStart(_await_market_to_close(Broker, timedelta))

\* the strategy's loop sleeps between two iterations
Sleep ==
    /\ Running
    /\ should_continue(Broker)
    /\ Install(_update_datetime(Forget(Broker), Sleeptime))

\* The order book: every kind of order, awaits without an offset.
Next ==
    \/ SubmitOrder(Templates)
    \/ CancelOrder
    \/ ProcessPendingOrders
    \/ AwaitMarketToOpen({0})
    \/ AwaitMarketToClose({0})
    \/ Sleep

Spec == Init /\ [][Next]_vars

\* The clock: awaits with every offset, market orders only.
NextClock ==
    \/ SubmitOrder({Order("STK", 1, "buy", Kw(None, None, None))})
    \/ ProcessPendingOrders
    \/ AwaitMarketToOpen(Offsets)
    \/ AwaitMarketToClose(Offsets)
    \/ Sleep

SpecClock == Init /\ [][NextClock]_vars

\* sleeptimes of a strategy whose iterations do not end on a session's close
LateSleeptimes == {Sleeptime, Sleeptime + Sleeptime \div 2}

\* the strategy's loop sleeps between two iterations
SleepFor(sleeptimes) ==
    \E sleeptime \in sleeptimes :
        /\ Running
        /\ should_continue(Broker)
        /\ Install(_update_datetime(Forget(Broker), sleeptime))

\* The clock up to and past the last session.
NextEnd ==
    \/ SubmitOrder({Order("STK", 1, "buy", Kw(None, None, None))})
    \/ ProcessPendingOrders
    \/ AwaitMarketToOpen(Offsets)
    \/ AwaitMarketToClose(Offsets)
    \/ SleepFor(LateSleeptimes)

SpecEnd == Init /\ [][NextEnd]_vars

\* The orders with a trigger: stop_limit and trailing_stop orders on STK.
TriggerTemplates ==
    { Order("STK", 1, "sell", Kw(5, 3, None)),
      Order("STK", 1, "sell", Kw(2, 2, None)),
      Order("STK", 1, "buy", Kw(4, 4, None)),
      Order("STK", 1, "sell", Kw(None, None, 1)),
      Order("STK", 1, "sell", Kw(None, None, 2)),
      Order("STK", 1, "buy", Kw(None, None, 1)) }

SubmitTriggerOrder ==
    /\ Len(orders) < MaxTriggerOrders
    /\ SubmitOrder(TriggerTemplates)

NextTrigger ==
    \/ SubmitTriggerOrder
    \/ ProcessPendingOrders
    \/ Sleep

SpecTrigger == Init /\ [][NextTrigger]_vars

\* The parents: bracket and OTO orders on STK, entering at the market or at
\* a limit of 1 (first reached by the bar at 43200).
ParentTemplates ==
    { Order("STK", 1, "buy", Class(Kw(None, None, None), "bracket", 2, None, 4)),
      Order("STK", 1, "buy", Class(Kw(1, None, None), "bracket", 2, None, 4)),
      Order("STK", 1, "buy", Class(Kw(None, None, None), "oto", 2, None, None)),
      Order("STK", 1, "buy", Class(Kw(1, None, None), "oto", None, None, 4)),
      Order("STK", 1, "buy", Kw(None, None, None)) }

NextParents ==
    \/ SubmitOrder(ParentTemplates)
    \/ CancelOrder
    \/ ProcessPendingOrders
    \/ Sleep

SpecParents == Init /\ [][NextParents]_vars

\* market orders that open long and short positions in the three options
OptionTemplates ==
    { Order(a, 1, side, Kw(None, None, None)) : a \in {"OPT", "PUT", "FAR"}, side \in Sides }

NextOptions ==
    \/ SubmitOrder(OptionTemplates)
    \/ ProcessPendingOrders
    \/ Sleep

SpecOptions == Init /\ [][NextOptions]_vars

\* the events of the stream
Events == {NEW_ORDER, FILLED_ORDER, CANCELED_ORDER, CASH_SETTLED}

\* in a run with faults the processing of one kind of event raises
InitFaults ==
    /\ datetime = datetime_start
    /\ orders = <<>>
    /\ new_orders = <<>>
    /\ positions = [a \in Assets |-> 0]
    /\ cash = initial_cash
    /\ \E event \in Events :
           stream = [of |-> <<>>, inserted |-> <<>>, settled |-> <<>>, proceeds |-> 0,
                     pass_fills |-> <<>>, pass_evals |-> <<>>, cancels |-> 0,
                     faults |-> {event}]
    /\ error = "none"
    /\ fn = NoFn

FaultTemplates ==
    { Order("STK", 1, "buy", Kw(None, None, None)),
      Order("STK", 1, "sell", Class(Kw(None, None, None), "oco", 2, None, 4)),
      Order("OPT", 1, "buy", Kw(None, None, None)) }

RECURSIVE FillEvents(_)
FillEvents(of) == IF of = <<>> THEN 0 ELSE Head(of).fill + FillEvents(Tail(of))

\* a pass of a run in which at most MaxFaultEvents fills and settlements
\* are published
ProcessPendingOrdersBounded ==
    /\ FillEvents(stream.of) + Len(stream.settled) < MaxFaultEvents
    /\ ProcessPendingOrders

NextFaults ==
    \/ SubmitOrder(FaultTemplates)
    \/ CancelOrder
    \/ ProcessPendingOrdersBounded
    \/ Sleep

SpecFaults == InitFaults /\ [][NextFaults]_vars

\* an order whose type the backtesting broker does not implement
OfType(o, type) == [o EXCEPT !.type = type]

TypeTemplates ==
    { Order("STK", 1, "buy", Kw(None, None, None)),
      Order("STK", 1, "sell", Kw(4, None, None)),
      OfType(Order("STK", 1, "buy", Kw(None, None, None)), "market_on_close") }

NextTypes ==
    \/ SubmitOrder(TypeTemplates)
    \/ CancelOrder
    \/ ProcessPendingOrders
    \/ Sleep

SpecTypes == Init /\ [][NextTypes]_vars

\* orders on a stock that has data from the start and on one that has not
DataTemplates ==
    { Order("STK", 1, "buy", Kw(None, None, None)),
      Order("STK", 1, "sell", Kw(4, None, None)),
      Order("IPO", 1, "buy", Kw(None, None, None)),
      Order("IPO", 1, "buy", Kw(1, None, None)) }

NextData ==
    \/ SubmitOrder(DataTemplates)
    \/ CancelOrder
    \/ ProcessPendingOrders
    \/ Sleep

SpecData == Init /\ [][NextData]_vars

-----------------------------------------------------------------------------
(* A fill rule applied on its own to every price, side and bar.            *)

Prices == 1..MaxPrice

InitLimit ==
    /\ datetime = datetime_start
    /\ orders = <<>>
    /\ new_orders = <<>>
    /\ positions = [a \in Assets |-> 0]
    /\ cash = initial_cash
    /\ stream = [of |-> <<>>, inserted |-> <<>>, settled |-> <<>>, proceeds |-> 0,
                 pass_fills |-> <<>>, pass_evals |-> <<>>, cancels |-> 0,
                 faults |-> {}]
    /\ error = "none"
    /\ \E limit_price \in Prices, side \in Sides, open \in Prices, high \in Prices,
          low \in Prices :
           /\ low <= open /\ open <= high
           /\ fn = [applied |-> FALSE, limit_price |-> limit_price, side |-> side,
                    open |-> open, high |-> high, low |-> low, price |-> None]

ApplyLimitOrder ==
    /\ ~fn.applied
    /\ fn' = [fn EXCEPT !.applied = TRUE,
                        !.price = limit_order(fn.limit_price, fn.side, fn.open,
                                              fn.high, fn.low)]
    /\ UNCHANGED <<datetime, orders, new_orders, positions, cash, stream, error>>

NextLimit == ApplyLimitOrder

SpecLimit == InitLimit /\ [][NextLimit]_vars

InitStop ==
    /\ datetime = datetime_start
    /\ orders = <<>>
    /\ new_orders = <<>>
    /\ positions = [a \in Assets |-> 0]
    /\ cash = initial_cash
    /\ stream = [of |-> <<>>, inserted |-> <<>>, settled |-> <<>>, proceeds |-> 0,
                 pass_fills |-> <<>>, pass_evals |-> <<>>, cancels |-> 0,
                 faults |-> {}]
    /\ error = "none"
    /\ \E stop_price \in Prices, side \in Sides, open \in Prices, high \in Prices,
          low \in Prices :
           /\ low <= open /\ open <= high
           /\ fn = [applied |-> FALSE, stop_price |-> stop_price, side |-> side,
                    open |-> open, high |-> high, low |-> low, price |-> None]

ApplyStopOrder ==
    /\ ~fn.applied
    /\ fn' = [fn EXCEPT !.applied = TRUE,
                        !.price = stop_order(fn.stop_price, fn.side, fn.open,
                                             fn.high, fn.low)]
    /\ UNCHANGED <<datetime, orders, new_orders, positions, cash, stream, error>>

NextStop == ApplyStopOrder

SpecStop == InitStop /\ [][NextStop]_vars

-----------------------------------------------------------------------------
(* Properties.                                                             *)

Ids == 1..Len(orders)

\* where an identifier stands in a list
Pos(list, id) == CHOOSE i \in 1..Len(list) : list[i] = id

\* the row of an asset with a given index
BarAt(asset, index) ==
    LET rows == BarsOf(asset)
    IN  rows[CHOOSE i \in 1..Len(rows) : rows[i].index = index]

\* C1: of two orders linked by dependent_order (the two legs of an OCO, the
\* two children of a bracket) at most one is ever filled, and none twice;
\* at the end of the pass that fills one, the other is marked
\* dependent_order_filled, is canceled and was never filled.
C1_OcoAtMostOneFilled ==
    \A a \in Ids :
        orders[a].dependent_order # None =>
            /\ stream.of[a].fill <= 1
            /\ orders[a].status = FILLED_ORDER =>
                   /\ orders[orders[a].dependent_order].status = CANCELED_ORDER
                   /\ orders[orders[a].dependent_order].dependent_order_filled
                   /\ stream.of[orders[a].dependent_order].fill = 0

\* C1 happens: the pass just run filled the stop leg of an OCO on a bar on
\* which the limit leg could have filled too, and canceled the limit leg.
C1_BothLegsFillable ==
    \E i \in 1..Len(stream.pass_evals) :
        LET a == stream.pass_evals[i].order
            d == orders[a].dependent_order
            bar == BarAt(orders[a].asset, stream.pass_evals[i].index)
        IN  /\ d # None
            /\ \E p \in Ids : orders[p].order_class = "oco"
            /\ orders[a].status = FILLED_ORDER
            /\ orders[d].status = CANCELED_ORDER
            /\ stop_order(orders[a].stop_price, orders[a].side,
                          bar.open, bar.high, bar.low) # None
            /\ limit_order(orders[d].limit_price, orders[d].side,
                           bar.open, bar.high, bar.low) # None

\* C2: an order that is filled has had exactly one FILLED_ORDER event and
\* no CANCELED_ORDER event.
C2_FilledOnceNeverCanceled ==
    \A id \in Ids :
        orders[id].status = FILLED_ORDER =>
            stream.of[id].fill = 1 /\ stream.of[id].canceled = 0

C4_ClockMonotonic == [][datetime' >= datetime]_vars

Filled(o) == o.status = FILLED_ORDER

Notional(o) == o.fill_price * o.quantity * AssetOf(o.asset).multiplier * 100

\* what the filled orders among os[i..] add to the cash: their notionals,
\* signed by side, less their trade costs by the fee model
RECURSIVE CashFlow(_, _)
CashFlow(os, i) ==
    IF i > Len(os) THEN 0
    ELSE (IF Filled(os[i])
          THEN (IF os[i].side = "buy" THEN 0 - Notional(os[i]) ELSE Notional(os[i]))
                   - calculate_trade_cost(os[i], os[i].fill_price)
          ELSE 0) + CashFlow(os, i + 1)

\* C5: cash = initial cash - trade costs of the filled orders (by the fee
\* model) + cash-settlement proceeds - notionals of the filled buys
\* + notionals of the filled sells.
C5_CashIdentity == cash = initial_cash + stream.proceeds + CashFlow(orders, 1)

\* C5 happens: a buy with a trade cost and a sell with a trade cost are
\* filled and an option position was settled for cash.
C5_AllTermsPresent ==
    /\ stream.proceeds > 0
    /\ \E id \in Ids : Filled(orders[id]) /\ orders[id].side = "buy"
                           /\ orders[id].trade_cost > 0
    /\ \E id \in Ids : Filled(orders[id]) /\ orders[id].side = "sell"
                           /\ orders[id].trade_cost > 0

\* C6: no evaluation of the pass just run used a row whose index is after
\* the time of the pass.
C6_NoLookAhead ==
    \A i \in 1..Len(stream.pass_evals) :
        stream.pass_evals[i].index <= stream.pass_evals[i].at

\* C7: an order on which cancel_order was called before any pass ran since
\* its submission is canceled and no FILLED_ORDER event is ever dispatched
\* for it.
C7_CanceledBeforeTickNeverFills ==
    \A id \in Ids :
        stream.of[id].early_cancel =>
            orders[id].status = CANCELED_ORDER /\ stream.of[id].fill = 0

\* C7 happens: a market order canceled right after its submission has since
\* been through a pass, which would have filled it.
C7_EarlyCancelThenPass ==
    \E id \in Ids :
        /\ stream.of[id].early_cancel
        /\ stream.of[id].seen_pass
        /\ orders[id].type = "market"
        /\ orders[id].order_class = ""

\* what C8 compares: order statuses and fields, tracked set, positions, cash
BrokerState(b) == <<b.orders, b.new_orders, b.positions, b.cash>>

\* C8: in every state, for every order, cancel_order called twice leaves
\* the broker state that one call leaves; and on an order whose sibling is
\* filled, cancel_order changes nothing.
C8_CancelIdempotent ==
    \A id \in Ids :
        /\ BrokerState(cancel_order(cancel_order(Broker, id), id))
               = BrokerState(cancel_order(Broker, id))
        /\ (/\ orders[id].dependent_order # None
            /\ orders[orders[id].dependent_order].status = FILLED_ORDER)
               => BrokerState(cancel_order(Broker, id)) = BrokerState(Broker)

\* C8 happens: two cancel_order calls were made on an active order, and a
\* cancel_order call was made on an order whose sibling is filled.
C8_CanceledTwice ==
    \/ \E id \in Ids :
           /\ stream.of[id].canceled = 2 /\ stream.cancels = 2
           /\ orders[id].status = CANCELED_ORDER
           /\ orders[id].dependent_order = None
    \/ \E id \in Ids :
           /\ orders[id].dependent_order # None
           /\ orders[orders[id].dependent_order].status = FILLED_ORDER
           /\ stream.of[id].canceled = 2 /\ stream.cancels = 1

\* C9: the evaluations of the pass just run, and its FILLED_ORDER events,
\* come in the order in which the orders entered the tracked set.
C9_InsertionOrder ==
    /\ \A i, j \in 1..Len(stream.pass_evals) :
           i < j => Pos(stream.inserted, stream.pass_evals[i].order)
                        < Pos(stream.inserted, stream.pass_evals[j].order)
    /\ \A i, j \in 1..Len(stream.pass_fills) :
           i < j => Pos(stream.inserted, stream.pass_fills[i])
                        < Pos(stream.inserted, stream.pass_fills[j])

\* C9 happens: the pass just run evaluated three orders and filled two.
C9_TwoFillsInOnePass ==
    Len(stream.pass_evals) >= 3 /\ Len(stream.pass_fills) >= 2

\* the gap condition of a limit order
LimitGap == \/ (fn.side = "sell" /\ fn.limit_price <= fn.open)
            \/ (fn.side = "buy" /\ fn.limit_price >= fn.open)

LimitInRange == fn.low <= fn.limit_price /\ fn.limit_price <= fn.high

\* C10: limit_order gives the open when the gap condition holds, else the
\* limit price when it lies within [low, high], else nothing; a buy limit at
\* the low and a sell limit at the high fill at the limit price.
C10_LimitOrderRule ==
    fn.applied =>
        /\ LimitGap => fn.price = fn.open
        /\ (~LimitGap /\ LimitInRange) => fn.price = fn.limit_price
        /\ (~LimitGap /\ ~LimitInRange) => fn.price = None
        /\ (fn.side = "buy" /\ fn.limit_price = fn.low) => fn.price = fn.limit_price
        /\ (fn.side = "sell" /\ fn.limit_price = fn.high) => fn.price = fn.limit_price

\* C10 happens: a buy limit at the low of a bar that opened above it was
\* filled at the limit price.
C10_BuyLimitAtLow ==
    /\ fn.applied
    /\ fn.side = "buy"
    /\ fn.limit_price = fn.low
    /\ fn.limit_price < fn.open
    /\ fn.price = fn.limit_price

\* the gap condition of a stop order
StopGap == \/ (fn.side = "sell" /\ fn.stop_price >= fn.open)
           \/ (fn.side = "buy" /\ fn.stop_price <= fn.open)

StopInRange == fn.low <= fn.stop_price /\ fn.stop_price <= fn.high

\* C11: stop_order gives the open when the gap condition holds, else the
\* stop price when it lies within [low, high], else nothing; a stop equal to
\* the open fills at the open.
C11_StopOrderRule ==
    fn.applied =>
        /\ StopGap => fn.price = fn.open
        /\ (~StopGap /\ StopInRange) => fn.price = fn.stop_price
        /\ (~StopGap /\ ~StopInRange) => fn.price = None
        /\ fn.stop_price = fn.open => fn.price = fn.open

\* C11 happens: a sell stop above the open and within the bar's range was
\* filled at the open, not at the stop price.
C11_SellStopGapWithinRange ==
    /\ fn.applied
    /\ fn.side = "sell"
    /\ fn.stop_price > fn.open
    /\ fn.stop_price <= fn.high
    /\ fn.price = fn.open

\* C12: a market order that a pass evaluates is filled in that pass at the
\* open of the bar it is evaluated on, whatever the bar's high and low; and
\* no tracked market order that is still pending and not marked
\* dependent_order_filled is left after a pass that ran to its end.
C12_MarketFillsAtOpen ==
    /\ \A i \in 1..Len(stream.pass_evals) :
           LET id == stream.pass_evals[i].order
           IN  orders[id].type = "market" =>
                   /\ orders[id].status = FILLED_ORDER
                   /\ orders[id].fill_price
                          = BarAt(orders[id].asset, stream.pass_evals[i].index).open
                   /\ \E j \in 1..Len(stream.pass_fills) : stream.pass_fills[j] = id
    /\ \A i \in 1..Len(new_orders) :
           LET id == new_orders[i]
           IN  (/\ orders[id].type = "market"
                /\ stream.of[id].seen_pass
                /\ ~orders[id].dependent_order_filled
                /\ error = "none")
                   => ~IsPending(orders[id])

\* C12 happens: a market order was filled at the open of a bar whose low,
\* high and close all differ from the open.
C12_MarketFilledInsideBar ==
    \E i \in 1..Len(stream.pass_evals) :
        LET id == stream.pass_evals[i].order
            bar == BarAt(orders[id].asset, stream.pass_evals[i].index)
        IN  /\ orders[id].type = "market"
            /\ bar.low < bar.open /\ bar.open < bar.high /\ bar.close # bar.open
            /\ orders[id].fill_price = bar.open
            /\ stream.of[id].fill = 1

\* the pass made by this step evaluates, as its i-th evaluation, an order of
\* the given type that was pending before the step
Evaluates(i, type) ==
    /\ stream'.pass_evals[i].order \in 1..Len(orders)
    /\ stream'.pass_evals[i].at = datetime
    /\ IsPending(orders[stream'.pass_evals[i].order])
    /\ orders[stream'.pass_evals[i].order].type = type

\* the step fills order id at price, or leaves it pending when price is None
Outcome(id, price) ==
    IF price # None
    THEN /\ orders'[id].status = FILLED_ORDER
         /\ orders'[id].fill_price = price
         /\ stream'.of[id].fill = stream.of[id].fill + 1
    ELSE /\ IsPending(orders'[id])
         /\ stream'.of[id] = [stream.of[id] EXCEPT !.seen_pass = TRUE]

\* the trigger price the stop rule of a stop_limit order yields on a bar
Trigger(o, bar) == stop_order(o.stop_price, o.side, bar.open, bar.high, bar.low)

\* C13: a stop_limit order not yet triggered, on a bar where its stop rule
\* yields a trigger price, gets the result of the limit rule with the
\* trigger price in place of the open; one triggered on an earlier bar gets
\* the plain limit rule on the bar; an untriggered one whose stop rule
\* yields nothing is not filled on that bar.
C13_StopLimitRule ==
    [][\A i \in 1..Len(stream'.pass_evals) :
           Evaluates(i, "stop_limit") =>
               LET id == stream'.pass_evals[i].order
                   o == orders[id]
                   bar == BarAt(o.asset, stream'.pass_evals[i].index)
               IN  IF o.price_triggered
                   THEN Outcome(id, limit_order(o.limit_price, o.side,
                                                bar.open, bar.high, bar.low))
                   ELSE IF Trigger(o, bar) # None
                   THEN Outcome(id, limit_order(o.limit_price, o.side,
                                                Trigger(o, bar), bar.high, bar.low))
                   ELSE Outcome(id, None)]_vars

\* C13 happens: a sell stop_limit (stop 2, limit 2) was filled at its
\* trigger price 2 on the bar that opened at 3, on which the plain limit
\* rule gives the open.
C13_FilledAtTrigger ==
    \E i \in 1..Len(stream.pass_evals) :
        LET id == stream.pass_evals[i].order
            bar == BarAt(orders[id].asset, stream.pass_evals[i].index)
        IN  /\ orders[id].type = "stop_limit"
            /\ orders[id].status = FILLED_ORDER
            /\ orders[id].fill_price = Trigger(orders[id], bar)
            /\ orders[id].fill_price
                   # limit_order(orders[id].limit_price, orders[id].side,
                                 bar.open, bar.high, bar.low)

\* C14: when the stop of a stop_limit order triggers on a bar on which its
\* limit cannot fill, the pass leaves the order pending with
\* price_triggered = true and dispatches no event for it; and no step ever
\* takes price_triggered back to false.
C14_TriggerLatched ==
    [][/\ \A id \in 1..Len(orders) :
              orders[id].price_triggered => orders'[id].price_triggered
       /\ \A i \in 1..Len(stream'.pass_evals) :
              LET id == stream'.pass_evals[i].order
                  o == orders[id]
                  bar == BarAt(o.asset, stream'.pass_evals[i].index)
              IN  (/\ Evaluates(i, "stop_limit")
                   /\ ~o.price_triggered
                   /\ Trigger(o, bar) # None
                   /\ limit_order(o.limit_price, o.side, Trigger(o, bar),
                                  bar.high, bar.low) = None)
                      => /\ IsPending(orders'[id])
                         /\ orders'[id].price_triggered
                         /\ stream'.of[id] = [stream.of[id] EXCEPT !.seen_pass = TRUE]]_vars

\* C14 happens: a sell stop_limit (stop 3, limit 5) was triggered by the
\* pass just run on a bar whose high is below its limit, and is pending.
C14_TriggeredAndPending ==
    \E i \in 1..Len(stream.pass_evals) :
        LET id == stream.pass_evals[i].order
            bar == BarAt(orders[id].asset, stream.pass_evals[i].index)
        IN  /\ orders[id].type = "stop_limit"
            /\ IsPending(orders[id])
            /\ orders[id].price_triggered
            /\ Trigger(orders[id], bar) # None
            /\ orders[id].limit_price > bar.high
            /\ stream.of[id].fill = 0 /\ stream.of[id].canceled = 0

\* C15: the stop check of a trailing_stop order on a bar uses the
\* _trail_stop_price held before the bar's update of the trail; an order
\* whose _trail_stop_price was never set is not filled on the first bar
\* that evaluates it, and that bar initialises the trail (from its high
\* for a sell, from its low for a buy).
C15_TrailingFillFirst ==
    [][\A i \in 1..Len(stream'.pass_evals) :
           Evaluates(i, "trailing_stop") =>
               LET id == stream'.pass_evals[i].order
                   o == orders[id]
                   bar == BarAt(o.asset, stream'.pass_evals[i].index)
               IN  /\ Outcome(id, IF o.trail_stop_price # None
                                  THEN stop_order(o.trail_stop_price, o.side,
                                                  bar.open, bar.high, bar.low)
                                  ELSE None)
                   /\ o.trail_stop_price = None =>
                          /\ IsPending(orders'[id])
                          /\ orders'[id].trail_stop_price
                                 = IF o.side = "sell" THEN bar.high - o.trail_price
                                   ELSE bar.low + o.trail_price]_vars

\* C15 happens: the pass just run initialised the trail of a trailing stop
\* to a price that the same bar would have triggered, and did not fill it.
C15_InitialisedNotFilled ==
    \E i \in 1..Len(stream.pass_evals) :
        LET id == stream.pass_evals[i].order
            o == orders[id]
            bar == BarAt(o.asset, stream.pass_evals[i].index)
        IN  /\ o.type = "trailing_stop"
            /\ IsPending(o)
            /\ o.trail_stop_price # None
            /\ stop_order(o.trail_stop_price, o.side, bar.open, bar.high, bar.low) # None
            /\ stream.of[id].fill = 0

InList(list, id) == \E i \in 1..Len(list) : list[i] = id

\* the step is a submit_order call for a new order, which gets this id
Submitted(id) ==
    /\ id = Len(orders) + 1
    /\ Len(orders') >= id
    /\ stream'.of[id].new = 1

\* C16: when submit_order returns, the submitted order is in _new_orders,
\* unless it is a transmitted OCO parent: then its two flattened children
\* (a stop and a limit, each the other's dependent_order) are in
\* _new_orders and the parent is not.
C16_TrackedAfterSubmit ==
    [][\A id \in {Len(orders) + 1} :
           Submitted(id) =>
               IF orders'[id].transmitted /\ orders'[id].order_class = "oco"
               THEN /\ ~InList(new_orders', id)
                    /\ Len(orders') = id + 2
                    /\ InList(new_orders', id + 1) /\ InList(new_orders', id + 2)
                    /\ orders'[id + 1].type = "stop"
                    /\ orders'[id + 1].dependent_order = id + 2
                    /\ orders'[id + 2].type = "limit"
                    /\ orders'[id + 2].dependent_order = id + 1
               ELSE /\ InList(new_orders', id)
                    /\ Len(orders') = id]_vars

\* C16 happens: an OCO parent was submitted; its children are tracked and it
\* is not.
C16_OcoParentReplaced ==
    \E id \in 1..Len(orders) :
        /\ orders[id].order_class = "oco"
        /\ stream.of[id].new = 1
        /\ ~InList(new_orders, id)
        /\ InList(new_orders, id + 1) /\ InList(new_orders, id + 2)

\* the Order objects that exist on account of the orders submitted among
\* os[i..]: each submitted order, the two children of an OCO parent, and
\* the children of a bracket or OTO parent once it is filled
RECURSIVE Objects(_, _, _)
Objects(os, of, i) ==
    IF i > Len(os) THEN 0
    ELSE (IF of[i].new = 0 THEN 0
          ELSE IF os[i].order_class = "oco" THEN 3
          ELSE IF os[i].order_class \in {"bracket", "oto"} /\ Filled(os[i])
          THEN 1 + ChildrenOf(os[i])
          ELSE 1) + Objects(os, of, i + 1)

\* C17: the children of a bracket or OTO parent are in the tracked set
\* exactly when the parent is filled: none exists while the parent is
\* pending, none ever for a parent canceled before filling, and once the
\* parent is filled each of its children is in _new_orders.
C17_ChildrenWhenParentFilled ==
    /\ Len(orders) = Objects(orders, stream.of, 1)
    /\ \A id \in 1..Len(orders) : stream.of[id].new = 0 => InList(new_orders, id)

\* C17 happens: one parent was canceled while pending and a pass has run
\* since; another, an OTO, was filled and its child is tracked.
C17_CanceledAndFilledParents ==
    \E p \in 1..Len(orders), q \in 1..Len(orders), child \in 1..Len(orders) :
        /\ orders[p].order_class \in {"bracket", "oto"}
        /\ orders[p].status = CANCELED_ORDER
        /\ stream.of[p].seen_pass
        /\ stream.of[p].fill = 0
        /\ orders[q].order_class = "oto"
        /\ Filled(orders[q])
        /\ stream.of[child].new = 0
        /\ InList(new_orders, child)
        /\ orders[child].side = "sell"

\* the option positions a pass finds expired: tracked, with an expiration
\* at or before the current date
Expired ==
    { a \in Assets : /\ positions[a] # 0
                     /\ AssetOf(a).asset_type = "option"
                     /\ AssetOf(a).expiration # None
                     /\ AssetOf(a).expiration <= Date(datetime) }

\* a process_pending_orders call made now publishes a settlement of asset a
SettledByPass(a) ==
    \E i \in (Len(stream.settled) + 1)..Len(process_pending_orders(Broker).stream.settled) :
        process_pending_orders(Broker).stream.settled[i].asset = a

\* it is the expiration day of a and the close of its session is further
\* away than strategy.minutes_before_closing; before the session opens the
\* time to close is None, which is read as further away still
EarlyOnExpirationDay(a) ==
    /\ AssetOf(a).expiration = Date(datetime)
    /\ \/ get_time_to_close(Broker).none
       \/ get_time_to_close(Broker).seconds > minutes_before_closing * 60

\* C18 as stated: a pass settles every expired option position except on
\* the expiration day with more than minutes_before_closing * 60 seconds
\* to the close.
C18_SettledUnlessEarlyOnExpirationDay ==
    Running => \A a \in Expired : SettledByPass(a) <=> ~EarlyOnExpirationDay(a)

\* C18, amended: a pass settles an expired option position exactly when
\* the market is open (get_time_to_close is not None) and it is not the
\* expiration day with more than minutes_before_closing * 60 seconds to
\* the close; nothing else is settled.
C18_SettledInSessionUnlessEarly ==
    Running =>
        /\ \A a \in Expired :
               SettledByPass(a) <=>
                   ~get_time_to_close(Broker).none /\ ~EarlyOnExpirationDay(a)
        /\ \A a \in Assets \ Expired : ~SettledByPass(a)

\* C18 happens: a position was settled, and an expired option position is
\* held on a later day than its expiration while the market is closed.
C18_ExpiredHeldOvernight ==
    /\ Running
    /\ stream.settled # <<>>
    /\ \E a \in Expired :
           /\ AssetOf(a).expiration < Date(datetime)
           /\ get_time_to_close(Broker).none

\* the option positions held
HeldOptions ==
    { a \in Assets : positions[a] # 0 /\ AssetOf(a).asset_type = "option" }

\* U: the last price of the underlying of a
Underlying(a) == get_last_price(Broker, AssetOf(a).symbol)

\* (U - strike for a CALL, strike - U for a PUT) * quantity * multiplier
Pnl(a) ==
    (IF AssetOf(a).right = "CALL" THEN Underlying(a) - AssetOf(a).strike
     ELSE AssetOf(a).strike - Underlying(a)) * positions[a] * AssetOf(a).multiplier

\* pnl clipped to be >= 0 for a long position and <= 0 for a short one
Clipped(a) ==
    IF positions[a] > 0 THEN (IF Pnl(a) >= 0 THEN Pnl(a) ELSE 0)
    ELSE (IF Pnl(a) <= 0 THEN Pnl(a) ELSE 0)

\* C19: cash settlement of an option position changes the cash by exactly
\* the clipped pnl (cash is in hundredths), so settling a long position
\* never decreases the cash and settling a short position never increases it.
C19_CashChangesByClippedPnl ==
    Running =>
        \A a \in HeldOptions :
            /\ cash_settle_options_contract(Broker, a).cash = cash + Clipped(a) * 100
            /\ positions[a] > 0 => cash_settle_options_contract(Broker, a).cash >= cash
            /\ positions[a] < 0 => cash_settle_options_contract(Broker, a).cash <= cash

\* C19 happens: the settlement of a short position has cost cash, and a
\* long PUT is held with the underlying above its strike, where the clip
\* applies.
C19_LossSettledAndClipAhead ==
    /\ Running
    /\ stream.proceeds < 0
    /\ \E i \in 1..Len(stream.settled) : stream.settled[i].side = "buy"
    /\ positions["PUT"] > 0
    /\ Pnl("PUT") < 0

\* the last CASH_SETTLED event published by a settlement of a made now
LastSettled(a) ==
    cash_settle_options_contract(Broker, a).stream.settled[Len(stream.settled) + 1]

\* C20: a cash settlement publishes one CASH_SETTLED event; its order is
\* on the side that offsets the position (sell if long, buy if short) for
\* |quantity| contracts, its price is |pnl / quantity / multiplier|, its
\* filled_quantity is |quantity|, and afterwards the position is zero.
C20_OffsettingOrderPublished ==
    /\ Running =>
           \A a \in HeldOptions :
               /\ Len(cash_settle_options_contract(Broker, a).stream.settled)
                      = Len(stream.settled) + 1
               /\ LastSettled(a).asset = a
               /\ LastSettled(a).side = (IF positions[a] > 0 THEN "sell" ELSE "buy")
               /\ LastSettled(a).quantity = Abs(positions[a])
               /\ LastSettled(a).filled_quantity = Abs(positions[a])
               /\ LastSettled(a).price * Abs(positions[a]) * AssetOf(a).multiplier
                      = Abs(Clipped(a))
               /\ cash_settle_options_contract(Broker, a).positions
                      = [positions EXCEPT ![a] = 0]
    /\ \A i \in 1..Len(stream.settled) :
           /\ stream.settled[i].quantity > 0
           /\ stream.settled[i].filled_quantity = stream.settled[i].quantity

\* C20 happens: a long CALL was settled by a sell at the intrinsic value 2
\* and a short position by a buy, and the CALL's position is zero.
C20_LongAndShortSettled ==
    /\ positions["OPT"] = 0
    /\ \E i \in 1..Len(stream.settled) :
           /\ stream.settled[i].asset = "OPT"
           /\ stream.settled[i].side = "sell"
           /\ stream.settled[i].price = 2
           /\ stream.settled[i].filled_quantity = 1
    /\ \E i \in 1..Len(stream.settled) : stream.settled[i].side = "buy"

-----------------------------------------------------------------------------
(* calculate_trade_cost applied on its own, over drawn fee lists.          *)

OrderTypes == {"market", "limit", "stop", "stop_limit", "trailing_stop"}

\* the fee lists a strategy may be given: the i-th fee of a list has its own
\* flat fee and percentage, and any taker and maker flags
RECURSIVE FeeLists(_)
FeeLists(n) ==
    IF n = 0 THEN {<<>>}
    ELSE FeeLists(n - 1) \cup
         { Append(fees, TradingFee(n * 100, n, taker, maker)) :
               fees \in {l \in FeeLists(n - 1) : Len(l) = n - 1},
               taker \in BOOLEAN, maker \in BOOLEAN }

InitCost ==
    /\ datetime = datetime_start
    /\ orders = <<>>
    /\ new_orders = <<>>
    /\ positions = [a \in Assets |-> 0]
    /\ cash = initial_cash
    /\ stream = [of |-> <<>>, inserted |-> <<>>, settled |-> <<>>, proceeds |-> 0,
                 pass_fills |-> <<>>, pass_evals |-> <<>>, cancels |-> 0,
                 faults |-> {}]
    /\ error = "none"
    /\ \E type \in OrderTypes, side \in Sides, quantity \in 1..MaxQuantity,
          price \in Prices, buy_fees \in FeeLists(MaxFees),
          sell_fees \in {<<>>, sell_trading_fees, buy_trading_fees} :
           fn = [applied |-> FALSE, type |-> type, side |-> side,
                 quantity |-> quantity, price |-> price,
                 buy_fees |-> buy_fees, sell_fees |-> sell_fees, trade_cost |-> 0]

ApplyCalculateTradeCost ==
    /\ ~fn.applied
    /\ fn' = [fn EXCEPT !.applied = TRUE,
                        !.trade_cost =
                            SumFees(TradingFees(fn.side, fn.buy_fees, fn.sell_fees),
                                    fn, fn.price)]
    /\ UNCHANGED <<datetime, orders, new_orders, positions, cash, stream, error>>

NextCost == ApplyCalculateTradeCost

SpecCost == InitCost /\ [][NextCost]_vars

\* the fee list of the side of the order whose cost was computed
SideFees == IF fn.side = "buy" THEN fn.buy_fees ELSE fn.sell_fees

\* a fee applies as taker to market and stop orders, as maker to limit and
\* stop_limit orders
Applies(fee) ==
    \/ fee.taker /\ fn.type \in {"market", "stop"}
    \/ fee.maker /\ fn.type \in {"limit", "stop_limit"}

\* flat_fee + price * quantity * percent_fee of the fees of SideFees[i..]
\* that apply
RECURSIVE FeesFrom(_)
FeesFrom(i) ==
    IF i > Len(SideFees) THEN 0
    ELSE (IF Applies(SideFees[i])
          THEN SideFees[i].flat_fee
                   + fn.price * fn.quantity * SideFees[i].percent_fee
          ELSE 0) + FeesFrom(i + 1)

\* C21: calculate_trade_cost is the sum, over the fee list of the order's
\* side, of flat_fee + price * quantity * percent_fee of every fee that
\* applies to the order's type; each fee counts once, and an empty list
\* gives 0.
C21_TradeCostSum ==
    fn.applied =>
        /\ fn.trade_cost = FeesFrom(1)
        /\ SideFees = <<>> => fn.trade_cost = 0

\* C21 happens: a limit buy was costed over two fees, the first both taker
\* and maker, the second taker only, so that the first alone is charged,
\* once.
C21_MakerFeeChargedOnce ==
    /\ fn.applied
    /\ fn.type = "limit"
    /\ fn.side = "buy"
    /\ Len(fn.buy_fees) = 2
    /\ fn.buy_fees[1].taker /\ fn.buy_fees[1].maker
    /\ fn.buy_fees[2].taker /\ ~fn.buy_fees[2].maker
    /\ fn.trade_cost = 100 + fn.price * fn.quantity

\* the sessions that close after the clock, and those that close at or after it
ClosingAfter == {d \in 1..Len(TradingDays) : datetime < TradingDays[d].market_close}
ClosingAtOrAfter == {d \in 1..Len(TradingDays) : datetime <= TradingDays[d].market_close}

\* the earliest session of a non-empty set of sessions
Earliest(sessions) == CHOOSE d \in sessions : \A e \in sessions : d <= e

\* the state after the pending orders are processed now and the clock is then set
PassThenClock(clock) == [process_pending_orders(Broker) EXCEPT !.datetime = clock]

\* the pass made now ends without an error
PassRuns == Running /\ process_pending_orders(Broker).error = "none"

C23_PassThenCloseMinusOffset ==
    PassRuns /\ ClosingAtOrAfter # {} =>
        \A offset \in Offsets :
            \E d \in ClosingAtOrAfter :
                _await_market_to_close(Broker, offset)
                    = PassThenClock(TradingDays[d].market_close - offset * 60)

\* C23, amended: _await_market_to_close(offset) processes the pending
\* orders at the current time and then sets the clock: to the close of the
\* earliest session closing at or after the clock minus offset * 60 seconds
\* when that session has opened, and to the current time minus offset * 60
\* seconds when it has not opened yet.
C23_PassThenCloseIfOpen ==
    PassRuns /\ ClosingAtOrAfter # {} =>
        \A offset \in Offsets :
            _await_market_to_close(Broker, offset)
                = PassThenClock(
                      (IF datetime < TradingDays[Earliest(ClosingAtOrAfter)].market_open
                       THEN datetime
                       ELSE TradingDays[Earliest(ClosingAtOrAfter)].market_close)
                      - offset * 60)

\* C23 happens: an order was evaluated inside the first session by the pass
\* of an await, and the clock now stands at that session's close.
C23_PassedThenAtClose ==
    /\ Running
    /\ datetime = TradingDays[1].market_close
    /\ \E i \in 1..Len(stream.pass_evals) :
           /\ stream.pass_evals[i].at < datetime
           /\ stream.pass_evals[i].at >= TradingDays[1].market_open

\* C24: should_continue is false exactly when the clock is at or past
\* datetime_end, and once it is false it is not true again after any step
\* in which the clock does not go back.
C24_StopsAtEnd ==
    /\ [](should_continue(Broker) <=> datetime < datetime_end)
    /\ [][~should_continue(Broker) /\ datetime' >= datetime
              => ~should_continue([Broker EXCEPT !.datetime = datetime'])]_vars

\* C24 happens: the clock has reached datetime_end, should_continue is
\* false, and a pass made there has evaluated an order.
C24_PassAtEnd ==
    /\ datetime = datetime_end
    /\ ~should_continue(Broker)
    /\ \E i \in 1..Len(stream.pass_evals) : stream.pass_evals[i].at = datetime_end

\* the orders a pass made now evaluates: tracked, pending, not skipped
Evaluable ==
    { id \in 1..Len(orders) :
          InList(new_orders, id) /\ IsPending(orders[id]) /\ ~Skipped(orders[id]) }

\* the data source has no bar of the asset at the current time: none of
\* its rows is at or before the clock
NoBar(asset) == \A i \in 1..Len(BarsOf(asset)) : BarsOf(asset)[i].index > datetime

\* C25: a pass cancels each pending order whose asset has no bar at the
\* current time, raises no error, and evaluates the other pending orders.
C25_NoBarCancelsAndGoesOn ==
    Running /\ (\E id \in Evaluable : NoBar(orders[id].asset)) =>
        /\ process_pending_orders(Broker).error = "none"
        /\ \A id \in Evaluable :
               IF NoBar(orders[id].asset)
               THEN process_pending_orders(Broker).orders[id].status = CANCELED_ORDER
               ELSE \E i \in 1..Len(process_pending_orders(Broker).stream.pass_evals) :
                        process_pending_orders(Broker).stream.pass_evals[i].order = id

\* the clock is past the last session
PastLastSession == \A d \in 1..Len(TradingDays) : datetime > TradingDays[d].market_close

\* past the last session, get_time_to_open and get_time_to_close return 0
C26_ZeroPastLastSession ==
    PastLastSession =>
        /\ get_time_to_open(Broker) = 0
        /\ get_time_to_close(Broker) = [none |-> FALSE, seconds |-> 0]

\* C26: with the clock past the last session, get_time_to_open and
\* get_time_to_close return 0 without an error, and an await leaves the
\* clock where it is.
C26_AwaitLeavesClockPastLastSession ==
    Running /\ PastLastSession =>
        /\ C26_ZeroPastLastSession
        /\ \A offset \in Offsets :
               /\ _await_market_to_open(Broker, offset).datetime = datetime
               /\ _await_market_to_close(Broker, offset).datetime = datetime

\* C27: an exception raised while an event is handled stays inside the
\* handler: the pass that dispatched the event ends without an error and
\* evaluates every pending order that no sibling's fill has set aside.
C27_HandlerFaultsContained ==
    Running =>
        /\ process_pending_orders(Broker).error = "none"
        /\ \A id \in Evaluable :
               \/ process_pending_orders(Broker).orders[id].dependent_order_filled
               \/ \E i \in 1..Len(process_pending_orders(Broker).stream.pass_evals) :
                      process_pending_orders(Broker).stream.pass_evals[i].order = id

\* C27 happens: the processing of FILLED_ORDER raises; the pass published
\* the fill of the first order it evaluated, which is pending still, and
\* went on to evaluate another order.
C27_FaultThenNextOrder ==
    /\ Running
    /\ stream.faults = {FILLED_ORDER}
    /\ Len(stream.pass_evals) >= 2
    /\ stream.pass_fills # <<>>
    /\ stream.pass_fills[1] = stream.pass_evals[1].order
    /\ IsPending(orders[stream.pass_evals[1].order])

\* the evaluable orders whose type is none of the five implemented
UnknownType == {id \in Evaluable : orders[id].type \notin OrderTypes}

\* C28: a pass that meets a pending order of an unknown type raises and
\* stops there: no FILLED_ORDER or CANCELED_ORDER event is published for
\* the order, no trade cost is debited for it, and no later order is
\* evaluated.
C28_UnknownTypeAborts ==
    Running =>
        \A id \in UnknownType :
            /\ process_pending_orders(Broker).error = "ValueError"
            /\ process_pending_orders(Broker).stream.of[id].fill = stream.of[id].fill
            /\ process_pending_orders(Broker).stream.of[id].canceled
                   = stream.of[id].canceled
            /\ process_pending_orders(Broker).orders[id] = orders[id]
            /\ orders[id].trade_cost = 0
            /\ process_pending_orders(Broker).cash
                   = cash + CashFlow(process_pending_orders(Broker).orders, 1)
                          - CashFlow(orders, 1)
            /\ \A i \in 1..Len(process_pending_orders(Broker).stream.pass_evals) :
                   Pos(new_orders, process_pending_orders(Broker).stream.pass_evals[i].order)
                       < Pos(new_orders, id)

\* C28 happens: a pass filled one order, then met an order of an unknown
\* type and ended with ValueError, leaving that order and a later one
\* pending.
C28_AbortedAfterFill ==
    /\ error = "ValueError"
    /\ stream.pass_fills # <<>>
    /\ \E id \in Ids, later \in Ids :
           /\ orders[id].type \notin OrderTypes
           /\ IsPending(orders[id])
           /\ stream.of[id].fill = 0
           /\ InList(new_orders, later)
           /\ Pos(new_orders, later) > Pos(new_orders, id)
           /\ IsPending(orders[later])
           /\ orders[later].type = "market"

\* the submitted OCO orders, and the two children _flatten_order made of
\* one at its submission, which follow it among the Order objects
OcoParents == {id \in Ids : orders[id].order_class = "oco" /\ stream.of[id].new >= 1}
OcoChildren(id) == {id + 1, id + 2}

\* C29: once an OCO order is submitted, a NEW_ORDER event has been
\* published for each of its two tracked children.
C29_NewOrderForOcoChildren ==
    \A id \in OcoParents :
        \A child \in OcoChildren(id) :
            InList(new_orders, child) => stream.of[child].new >= 1

-----------------------------------------------------------------------------
(* _flatten_order applied on its own to an OCO order.                      *)

InitFlatten ==
    /\ datetime = datetime_start
    /\ new_orders = <<>>
    /\ positions = [a \in Assets |-> 0]
    /\ cash = initial_cash
    /\ error = "none"
    /\ fn = [applied |-> FALSE, derived |-> <<>>]
    /\ \E asset \in {"STK", "IPO"}, quantity \in 1..MaxQuantity, side \in Sides,
          stop_loss_price \in Prices, take_profit_price \in Prices :
           /\ orders = << Order(asset, quantity, side,
                                Class(Kw(None, None, None), "oco", stop_loss_price,
                                      None, take_profit_price)) >>
           /\ stream = [of |-> <<NoHistory>>, inserted |-> <<>>, settled |-> <<>>,
                        proceeds |-> 0, pass_fills |-> <<>>, pass_evals |-> <<>>,
                        cancels |-> 0, faults |-> {}]

ApplyFlattenOrder ==
    /\ ~fn.applied
    /\ orders' = _flatten_order(Broker, 1).b.orders
    /\ stream' = _flatten_order(Broker, 1).b.stream
    /\ fn' = [applied |-> TRUE, derived |-> _flatten_order(Broker, 1).orders]
    /\ UNCHANGED <<datetime, new_orders, positions, cash, error>>

NextFlatten == ApplyFlattenOrder

SpecFlatten == InitFlatten /\ [][NextFlatten]_vars

\* the order shares quantity, asset and side with the parent
LikeParent(o, parent) ==
    o.quantity = parent.quantity /\ o.asset = parent.asset /\ o.side = parent.side

\* C30: flattening an OCO order yields exactly two children, a stop at
\* stop_loss_price and a limit at take_profit_price, both with the parent's
\* quantity, asset and side, whose dependent_order links point to each
\* other; every link of the book is one half of such a pair.
C30_OcoChildrenPaired ==
    fn.applied =>
        /\ Len(fn.derived) = 2
        /\ Len(orders) = 3
        /\ fn.derived[1] # fn.derived[2]
        /\ orders[fn.derived[1]].type = "stop"
        /\ orders[fn.derived[1]].stop_price = orders[1].stop_loss_price
        /\ orders[fn.derived[2]].type = "limit"
        /\ orders[fn.derived[2]].limit_price = orders[1].take_profit_price
        /\ LikeParent(orders[fn.derived[1]], orders[1])
        /\ LikeParent(orders[fn.derived[2]], orders[1])
        /\ orders[fn.derived[1]].dependent_order = fn.derived[2]
        /\ orders[fn.derived[2]].dependent_order = fn.derived[1]
        /\ \A id \in 1..Len(orders) :
               orders[id].dependent_order # None =>
                   /\ orders[id].dependent_order # id
                   /\ orders[orders[id].dependent_order].dependent_order = id

\* C30 happens: an OCO buy of 2 IPO with stop_loss_price 1 and
\* take_profit_price 4 was flattened into a stop at 1 and a limit at 4.
C30_BuyOcoFlattened ==
    /\ fn.applied
    /\ orders[1].side = "buy"
    /\ orders[1].asset = "IPO"
    /\ orders[1].quantity = 2
    /\ orders[fn.derived[1]].stop_price = 1
    /\ orders[fn.derived[2]].limit_price = 4
    /\ orders[fn.derived[2]].side = "buy"

\* the side opposite to a side
Opposite(side) == IF side = "buy" THEN "sell" ELSE "buy"

\* the children _flatten_order makes of order id now
Flat(id) == _flatten_order(Broker, id)

\* C31: flattening a bracket order yields a stop-loss child and a
\* take-profit child on the side opposite to the parent, with its quantity
\* and asset, linked to each other; of two linked orders at most one is
\* ever filled, and once one is filled the other is canceled and was never
\* filled.
C31_BracketChildrenExclusive ==
    /\ \A id \in Ids :
           orders[id].order_class = "bracket" =>
               /\ Len(Flat(id).orders) = 2
               /\ Flat(id).b.orders[Flat(id).orders[1]].stop_price
                      = orders[id].stop_loss_price
               /\ Flat(id).b.orders[Flat(id).orders[2]].limit_price
                      = orders[id].take_profit_price
               /\ \A i \in 1..2 :
                      /\ Flat(id).b.orders[Flat(id).orders[i]].side
                             = Opposite(orders[id].side)
                      /\ Flat(id).b.orders[Flat(id).orders[i]].quantity
                             = orders[id].quantity
                      /\ Flat(id).b.orders[Flat(id).orders[i]].asset = orders[id].asset
                      /\ Flat(id).b.orders[Flat(id).orders[i]].dependent_order
                             = Flat(id).orders[3 - i]
    /\ \A id \in Ids :
           orders[id].dependent_order # None /\ Filled(orders[id]) =>
               /\ orders[orders[id].dependent_order].status = CANCELED_ORDER
               /\ stream.of[orders[id].dependent_order].fill = 0

\* C31 happens: a bracket parent was filled, then one of its two children,
\* and the other child is canceled.
C31_ChildFilledSiblingCanceled ==
    \E parent \in Ids, child \in Ids :
        /\ orders[parent].order_class = "bracket"
        /\ Filled(orders[parent])
        /\ stream.of[child].new = 0
        /\ Filled(orders[child])
        /\ orders[child].side = Opposite(orders[parent].side)
        /\ orders[child].dependent_order # None
        /\ orders[orders[child].dependent_order].status = CANCELED_ORDER

\* the state a pass made now leaves
AfterPass == process_pending_orders(Broker)

\* the orders filled by that pass, and those it evaluated without a price
FilledByPass == {AfterPass.stream.pass_fills[i] : i \in 1..Len(AfterPass.stream.pass_fills)}
LeftByPass ==
    {AfterPass.stream.pass_evals[i].order : i \in 1..Len(AfterPass.stream.pass_evals)}
        \ FilledByPass

\* the quantity the fills of orders os[i..] add to the position of an asset
RECURSIVE QuantityFlow(_, _, _)
QuantityFlow(os, asset, i) ==
    IF i > Len(os) THEN 0
    ELSE (IF Filled(os[i]) /\ os[i].asset = asset
          THEN (IF os[i].side = "buy" THEN os[i].quantity ELSE 0 - os[i].quantity)
          ELSE 0) + QuantityFlow(os, asset, i + 1)

\* C32: a pass takes from the cash exactly the trade cost of each order it
\* fills (beside the notional the fill itself moves), keeps that cost in
\* order.trade_cost and publishes one FILLED_ORDER for the order's whole
\* quantity; an order evaluated without a price moves no cash and stays as
\* it was, pending, unless its sibling fills later in the pass and cancels it.
C32_FillFrameEffect ==
    Running /\ AfterPass.error = "none" =>
        /\ \A id \in FilledByPass :
               /\ AfterPass.orders[id].status = FILLED_ORDER
               /\ AfterPass.orders[id].trade_cost
                      = calculate_trade_cost(orders[id], AfterPass.orders[id].fill_price)
               /\ AfterPass.stream.of[id].fill = stream.of[id].fill + 1
        /\ \A id \in LeftByPass :
               /\ AfterPass.orders[id].trade_cost = orders[id].trade_cost
               /\ AfterPass.stream.of[id].fill = stream.of[id].fill
               /\ \/ /\ AfterPass.orders[id].status = orders[id].status
                     /\ IsPending(AfterPass.orders[id])
                     /\ AfterPass.stream.of[id].canceled = stream.of[id].canceled
                  \/ /\ AfterPass.orders[id].dependent_order_filled
                     /\ AfterPass.orders[id].dependent_order \in FilledByPass
        /\ AfterPass.cash - AfterPass.stream.proceeds - CashFlow(AfterPass.orders, 1)
               = cash - stream.proceeds - CashFlow(orders, 1)
        /\ \A a \in {"STK"} :
               AfterPass.positions[a] - QuantityFlow(AfterPass.orders, a, 1)
                   = positions[a] - QuantityFlow(orders, a, 1)

\* C32 happens: the last pass filled an order at a trade cost and left
\* another order, evaluated without a price, pending.
C32_OneFilledOneLeft ==
    /\ Running
    /\ \E i \in 1..Len(stream.pass_fills) : orders[stream.pass_fills[i]].trade_cost > 0
    /\ \E i \in 1..Len(stream.pass_evals) :
           /\ IsPending(orders[stream.pass_evals[i].order])
           /\ orders[stream.pass_evals[i].order].trade_cost = 0

-----------------------------------------------------------------------------
(* The transaction price as a function of the order and the bar.           *)

\* orders of every type, as an evaluation can find them
FillOrders ==
    { Order("STK", 1, side, Kw(None, None, None)) : side \in Sides }
    \cup { Order("STK", 1, side, Kw(limit_price, None, None)) :
               side \in Sides, limit_price \in Prices }
    \cup { Order("STK", 1, side, Kw(None, stop_price, None)) :
               side \in Sides, stop_price \in Prices }
    \cup { [Order("STK", 1, side, Kw(limit_price, stop_price, None))
               EXCEPT !.price_triggered = price_triggered] :
               side \in Sides, limit_price \in Prices, stop_price \in Prices,
               price_triggered \in BOOLEAN }
    \cup { [Order("STK", 1, side, Kw(None, None, 1))
               EXCEPT !.trail_stop_price = trail_stop_price] :
               side \in Sides, trail_stop_price \in {None} \cup Prices }

\* the well-formed bars: low <= open <= high and low <= close <= high
FillBars ==
    { Bar(0, open, high, low, close) :
          open \in Prices, high \in Prices, low \in Prices, close \in Prices }
    \cap { bar \in [index : {0}, open : Prices, high : Prices, low : Prices,
                    close : Prices] :
              /\ bar.low <= bar.open /\ bar.open <= bar.high
              /\ bar.low <= bar.close /\ bar.close <= bar.high }

InitFill ==
    /\ datetime = datetime_start
    /\ orders = <<>>
    /\ new_orders = <<>>
    /\ positions = [a \in Assets |-> 0]
    /\ cash = initial_cash
    /\ stream = [of |-> <<>>, inserted |-> <<>>, settled |-> <<>>, proceeds |-> 0,
                 pass_fills |-> <<>>, pass_evals |-> <<>>, cancels |-> 0,
                 faults |-> {}]
    /\ error = "none"
    /\ \E order \in FillOrders, bar \in FillBars :
           fn = [applied |-> FALSE, order |-> order, bar |-> bar, price |-> None]

ApplyFillPrice ==
    /\ ~fn.applied
    /\ fn' = [fn EXCEPT !.applied = TRUE,
                        !.price = FillPrice(fn.order, fn.bar).price]
    /\ UNCHANGED <<datetime, orders, new_orders, positions, cash, stream, error>>

NextFill == ApplyFillPrice

SpecFill == InitFill /\ [][NextFill]_vars

-----------------------------------------------------------------------------
(* The clock on any calendar.                                              *)

\* the times a session can open or close at: multiples of the sleep time
MaxSessionTimes == 6

SessionTimes == { k * Sleeptime : k \in 0..MaxSessionTimes }

\* the calendars of two sessions in order, each open before it closes, the
\* second opening when the first closes or later
Calendars ==
    { << [market_open |-> open1, market_close |-> close1],
         [market_open |-> open2, market_close |-> close2] >> :
          open1 \in SessionTimes, close1 \in SessionTimes,
          open2 \in SessionTimes, close2 \in SessionTimes }
    \cap { cal \in [1..2 -> [market_open : SessionTimes, market_close : SessionTimes]] :
              /\ cal[1].market_open < cal[1].market_close
              /\ cal[1].market_close <= cal[2].market_open
              /\ cal[2].market_open < cal[2].market_close }

InitCalendar ==
    /\ datetime = datetime_start
    /\ orders = <<>>
    /\ new_orders = <<>>
    /\ positions = [a \in Assets |-> 0]
    /\ cash = initial_cash
    /\ stream = [of |-> <<>>, inserted |-> <<>>, settled |-> <<>>, proceeds |-> 0,
                 pass_fills |-> <<>>, pass_evals |-> <<>>, cancels |-> 0,
                 faults |-> {}]
    /\ error = "none"
    /\ \E trading_days \in Calendars : fn = [trading_days |-> trading_days]

NextCalendar == Sleep

SpecCalendar == InitCalendar /\ [][NextCalendar]_vars

-----------------------------------------------------------------------------
(* Backtests that start at midnight, at an open, or inside a session.      *)

Starts == {0, 21600, 54000}

InitStart ==
    /\ orders = <<>>
    /\ new_orders = <<>>
    /\ positions = [a \in Assets |-> 0]
    /\ cash = initial_cash
    /\ stream = [of |-> <<>>, inserted |-> <<>>, settled |-> <<>>, proceeds |-> 0,
                 pass_fills |-> <<>>, pass_evals |-> <<>>, cancels |-> 0,
                 faults |-> {}]
    /\ error = "none"
    /\ \E start \in Starts :
           /\ datetime = start
           /\ fn = [datetime_start |-> start]

AwaitMarketToOpenFrom(minutes) ==
    \E timedelta \in minutes :
        /\ Running
        /\ InstallFromStart(_await_market_to_open_from(Broker, fn.datetime_start, timedelta))

NextStart ==
    \/ SubmitOrder({Order("STK", 1, "buy", Kw(None, None, None))})
    \/ ProcessPendingOrders
    \/ AwaitMarketToOpenFrom(Offsets)
    \/ AwaitMarketToClose(Offsets)
    \/ Sleep

SpecStart == InitStart /\ [][NextStart]_vars

-----------------------------------------------------------------------------
(* thetadata_helper.get_request and check_connection.                      *)

\* check_connection gives up after this many failed status checks
MAX_RETRIES == 15

\* querystring['exp']: absent, or a date that is a weekday, a holiday or
\* in a weekend
Expiries == {"none", "weekday", "holiday", "weekend"}

\* expiry in holidays: expiry is a datetime and the list holds dates, and a
\* datetime is never equal to a date
InHolidays(expiry) == FALSE

is_weekend(expiry) == expiry = "weekend"

\* what an attempt can meet: a 200 response whose header has no error_type
\* or the error_type "null", a 200 response with another error_type, a
\* response with another status, or an exception in requests.get or in
\* response.json()
Responses == {"valid", "null", "error_type", "status", "exception"}

\* status 200 and no error_type
Succeeds(response) == response \in {"valid", "null"}

\* what a status check of check_connection can meet; "raise" is an
\* exception of start_theta_data_client that leaves check_connection
Statuses == {"CONNECTED", "DISCONNECTED", "UNKNOWN", "exception", "raise"}

\* a slip: one more attempt allowed
RetriesExhaustedLate(counter) == counter > 2

RetriesExhausted(counter) == counter > 1

InitRequest ==
    /\ datetime = datetime_start
    /\ orders = <<>>
    /\ new_orders = <<>>
    /\ positions = [a \in Assets |-> 0]
    /\ cash = initial_cash
    /\ stream = [of |-> <<>>, inserted |-> <<>>, settled |-> <<>>, proceeds |-> 0,
                 pass_fills |-> <<>>, pass_evals |-> <<>>, cancels |-> 0,
                 faults |-> {}]
    /\ error = "none"
    /\ \E expiry \in Expiries :
           fn = [pc |-> "start", expiry |-> expiry, counter |-> 0, sent |-> 0,
                 attempts |-> <<>>, checks |-> <<>>, retries |-> 0,
                 in_handler |-> FALSE, json_resp |-> None, raised |-> ""]

Others == <<datetime, orders, new_orders, positions, cash, stream, error>>

\* the expiry check made before the loop
GetRequestBegin ==
    /\ fn.pc = "start"
    /\ fn' = IF fn.expiry # "none" /\ (InHolidays(fn.expiry) \/ is_weekend(fn.expiry))
             THEN [fn EXCEPT !.pc = "returned"]
             ELSE [fn EXCEPT !.pc = "request"]
    /\ UNCHANGED Others

\* requests.get and the test of the response; json_resp is the number of
\* the attempt whose response is returned
SendRequest ==
    /\ fn.pc = "request"
    /\ \E response \in Responses :
           fn' = IF Succeeds(response)
                 THEN [fn EXCEPT !.pc = "returned",
                                 !.sent = @ + 1,
                                 !.attempts = Append(@, response),
                                 !.checks = Append(@, 0),
                                 !.json_resp = fn.sent + 1]
                 ELSE [fn EXCEPT !.pc = "check",
                                 !.sent = @ + 1,
                                 !.attempts = Append(@, response),
                                 !.checks = Append(@, 1),
                                 !.retries = 0,
                                 !.in_handler = (response = "exception")]
    /\ UNCHANGED Others

\* one turn of the loop of check_connection; an exception that leaves it is
\* caught by get_request when the call is inside its try block, and the
\* handler calls check_connection again
CheckConnectionStep ==
    /\ fn.pc = "check"
    /\ \E status \in Statuses :
           fn' = IF status = "CONNECTED" THEN [fn EXCEPT !.pc = "count"]
                 ELSE IF status = "raise"
                 THEN (IF fn.in_handler
                       THEN [fn EXCEPT !.pc = "raised", !.raised = "Exception"]
                       ELSE [fn EXCEPT !.in_handler = TRUE,
                                       !.retries = 0,
                                       !.checks[Len(fn.checks)] = @ + 1])
                 ELSE IF fn.retries + 1 > MAX_RETRIES
                 THEN [fn EXCEPT !.retries = @ + 1, !.pc = "count"]
                 ELSE [fn EXCEPT !.retries = @ + 1]
    /\ UNCHANGED Others

\* counter += 1 and the test that ends the loop
CountAttempt ==
    /\ fn.pc = "count"
    /\ fn' = IF RetriesExhausted(fn.counter + 1)
             THEN [fn EXCEPT !.counter = @ + 1, !.pc = "raised", !.raised = "ValueError"]
             ELSE [fn EXCEPT !.counter = @ + 1, !.pc = "request"]
    /\ UNCHANGED Others

NextRequest ==
    \/ GetRequestBegin
    \/ SendRequest
    \/ CheckConnectionStep
    \/ CountAttempt

\* the call runs on: a step that can be taken is taken
SpecRequest == InitRequest /\ [][NextRequest]_vars /\ WF_vars(NextRequest)

-----------------------------------------------------------------------------
(* Position lookup.                                                        *)

\* Position(strategy, asset, quantity); none marks Python's None
Position(strategy, asset, quantity) ==
    [none |-> FALSE, strategy |-> strategy, asset |-> asset, quantity |-> quantity]

NoPosition == [none |-> TRUE, strategy |-> "", asset |-> "", quantity |-> 0]

\* the quantities of the positions of held[..] on an asset, added up
RECURSIVE QuantityOf(_, _, _)
QuantityOf(b, held, asset) ==
    IF held = <<>> THEN 0
    ELSE (IF Head(held) = asset THEN b.positions[Head(held)] ELSE 0)
             + QuantityOf(b, Tail(held), asset)

\* a Position is built whatever the loop over _filled_positions found
_pull_broker_position(b, asset) ==
    Position("", asset, QuantityOf(b, get_tracked_positions(b), asset))

_parse_broker_position(broker_position, strategy) ==
    [broker_position EXCEPT !.strategy = strategy]

_pull_position(b, strategy, asset) ==
    _parse_broker_position(_pull_broker_position(b, asset), strategy)

\* C33: _pull_position returns the position held for the asset and the
\* strategy when there is one, and None when there is none.
C33_PositionOrNone ==
    \A asset \in Assets :
        IF positions[asset] # 0
        THEN _pull_position(Broker, "strategy", asset)
                 = Position("strategy", asset, positions[asset])
        ELSE _pull_position(Broker, "strategy", asset) = NoPosition

\* the CASH_SETTLED events published so far for an asset
SettledCount(b, asset) ==
    Cardinality({ i \in 1..Len(b.stream.settled) : b.stream.settled[i].asset = asset })

\* the clock values a later call can be made at
LaterClocks == { datetime + k * Sleeptime : k \in 0..6 } \cap 0..datetime_end

\* the state a later call leaves, made at clock value t after a pass made now
AfterLaterPass(t) ==
    process_pending_orders(_update_datetime(AfterPass, t - datetime))

\* no order on the asset is filled by the pass or left open by it
NotReopened(asset) ==
    \A id \in Ids :
        orders[id].asset = asset =>
            id \notin FilledByPass /\ ~IsPending(AfterPass.orders[id])

\* C34: an expired option position is cash-settled at most once: the pass
\* that settles it publishes one CASH_SETTLED event for it and leaves no
\* position, and a later call, at the same or a later clock value,
\* publishes no further event for it and moves no settlement cash for it.
C34_SettledAtMostOnce ==
    Running /\ AfterPass.error = "none" =>
        \A a \in Assets :
            /\ positions[a] = 0 => ~SettledByPass(a)
            /\ SettledByPass(a) =>
                   SettledCount(AfterPass, a) = SettledCount(Broker, a) + 1
            /\ SettledByPass(a) /\ NotReopened(a) =>
                   /\ AfterPass.positions[a] = 0
                   /\ \A t \in LaterClocks :
                          /\ SettledCount(AfterLaterPass(t), a) = SettledCount(AfterPass, a)
                          /\ (\A other \in Assets \ {a} :
                                  SettledCount(AfterLaterPass(t), other)
                                      = SettledCount(AfterPass, other))
                                 => AfterLaterPass(t).stream.proceeds
                                        = AfterPass.stream.proceeds

\* C34 happens: a position in the CALL was settled before, a new position
\* in it is settled by a pass made now with its settlement moving cash,
\* and later calls in the sessions that follow find nothing to settle.
C34_SettledAndCallsFollow ==
    /\ Running
    /\ AfterPass.error = "none"
    /\ SettledCount(Broker, "OPT") = 1
    /\ SettledByPass("OPT")
    /\ NotReopened("OPT")
    /\ AfterPass.stream.proceeds # stream.proceeds
    /\ datetime < datetime_end

\* C35: for every order type and every well-formed bar, a fill price lies
\* within [low, high] of the bar the order is evaluated on.
C35_FillPriceWithinBar ==
    fn.applied /\ fn.price # None =>
        fn.bar.low <= fn.price /\ fn.price <= fn.bar.high

\* C35 happens: a stop_limit order whose limit and stop prices both lie
\* outside the bar is filled, at a price that is neither of them.
C35_FilledWithPricesOutsideBar ==
    /\ fn.applied
    /\ fn.price # None
    /\ fn.order.type = "stop_limit"
    /\ ~(fn.bar.low <= fn.order.limit_price /\ fn.order.limit_price <= fn.bar.high)
    /\ ~(fn.bar.low <= fn.order.stop_price /\ fn.order.stop_price <= fn.bar.high)
    /\ fn.bar.low < fn.bar.high

\* C36: a buy order of type limit or stop_limit never fills above its
\* limit_price and a sell order of these types never fills below it, also
\* on the bar where the stop of a stop_limit order triggers.
C36_LimitPriceProtection ==
    fn.applied /\ fn.price # None /\ fn.order.type \in {"limit", "stop_limit"} =>
        /\ fn.order.side = "buy" => fn.price <= fn.order.limit_price
        /\ fn.order.side = "sell" => fn.price >= fn.order.limit_price

\* C36 happens: a buy stop_limit order is filled on the bar where its stop
\* triggers, at its limit price below the trigger price.
C36_FilledAtLimitOnTriggerBar ==
    /\ fn.applied
    /\ fn.order.type = "stop_limit"
    /\ fn.order.side = "buy"
    /\ ~fn.order.price_triggered
    /\ Trigger(fn.order, fn.bar) # None
    /\ fn.price = fn.order.limit_price
    /\ fn.price < Trigger(fn.order, fn.bar)

\* the orders a pass made now appends to the tracked orders
AppendedByPass ==
    { id \in 1..Len(AfterPass.orders) :
          InList(AfterPass.new_orders, id) /\ ~InList(new_orders, id) }

\* the orders a pass made now evaluates
EvaluatedByPass ==
    {AfterPass.stream.pass_evals[i].order : i \in 1..Len(AfterPass.stream.pass_evals)}

\* the orders filled by the call that follows a pass made now
FilledByNextPass ==
    { process_pending_orders(AfterPass).stream.pass_fills[i] :
          i \in 1..Len(process_pending_orders(AfterPass).stream.pass_fills) }

\* C37: the children appended when a bracket or OTO parent fills are not
\* evaluated by the pass that fills the parent: that pass leaves them
\* pending, with no fill and no cancellation published for them, so the
\* next call is the earliest that can fill or cancel them.
C37_ChildrenWaitForNextPass ==
    Running /\ AfterPass.error = "none" =>
        \A id \in AppendedByPass :
            /\ \E parent \in FilledByPass :
                   AfterPass.orders[parent].order_class \in {"bracket", "oto"}
            /\ id \notin EvaluatedByPass
            /\ id \notin FilledByPass
            /\ IsPending(AfterPass.orders[id])
            /\ AfterPass.stream.of[id].fill = 0
            /\ AfterPass.stream.of[id].canceled = 0

\* C37 happens: a pass made now fills a parent and appends its children,
\* and the call that follows it fills one of them.
C37_ChildFilledByNextPass ==
    /\ Running
    /\ AfterPass.error = "none"
    /\ \E id \in AppendedByPass : id \in FilledByNextPass

\* C38: in every reachable clock state, on every calendar, also one in
\* which a session closes when the next opens, is_market_open() true means
\* get_time_to_close() returns a strictly positive number of seconds.
C38_OpenMeansTimeToClose ==
    is_market_open_in(fn.trading_days, datetime) =>
        /\ ~get_time_to_close_in(fn.trading_days, datetime).none
        /\ get_time_to_close_in(fn.trading_days, datetime).seconds > 0

\* the sessions of the calendar do not touch
SessionsApart == fn.trading_days[1].market_close < fn.trading_days[2].market_open

\* on a calendar whose sessions do not touch, an open market has a
\* strictly positive time to close
C38_PositiveWhenSessionsApart == SessionsApart => C38_OpenMeansTimeToClose

\* the clock stands at the close of the first session, which is the open
\* of the second
C38_AtSharedCloseAndOpen ==
    /\ ~SessionsApart
    /\ datetime = fn.trading_days[2].market_open
    /\ is_market_open_in(fn.trading_days, datetime)
    /\ get_time_to_close_in(fn.trading_days, datetime).seconds = 0

\* the state _await_market_to_open called now with no offset leaves
AfterAwaitOpen == _await_market_to_open_from(Broker, fn.datetime_start, 0)

\* C39: after _await_market_to_open with no offset returns, is_market_open()
\* is true whenever some session closes after the time of the call, and
\* the clock is left unchanged if the market was open already.
C39_OpenAfterAwaitAndClockKept ==
    PassRuns /\ ClosingAfter # {} =>
        /\ is_market_open(AfterAwaitOpen)
        /\ is_market_open(Broker) => AfterAwaitOpen.datetime = datetime

\* the market is open after the await, and the clock is kept when the
\* market was open and the clock is not before the start of the backtest
C39_OpenAfterAwait ==
    PassRuns /\ ClosingAfter # {} =>
        /\ is_market_open(AfterAwaitOpen)
        /\ is_market_open(Broker) /\ datetime >= fn.datetime_start
               => AfterAwaitOpen.datetime = datetime

\* the market is open and the clock stands before the start of the backtest
C39_OpenBeforeStart ==
    /\ PassRuns
    /\ is_market_open(Broker)
    /\ datetime < fn.datetime_start
    /\ AfterAwaitOpen.datetime = fn.datetime_start

\* get_request has returned or raised
RequestEnded == fn.pc \in {"returned", "raised"}

\* at most two requests are sent, only the last attempt can have succeeded,
\* what is returned is the response of that attempt, every failed attempt
\* that is over was followed by a call of check_connection, and the
\* ValueError comes after two failed attempts, which are never followed by
\* a third
RequestSafe ==
    /\ fn.sent <= 2
    /\ Len(fn.attempts) = fn.sent
    /\ \A i \in 1..fn.sent : i < fn.sent => ~Succeeds(fn.attempts[i])
    /\ fn.pc = "returned" =>
           \/ fn.sent = 0 /\ fn.json_resp = None /\ is_weekend(fn.expiry)
           \/ fn.sent >= 1 /\ Succeeds(fn.attempts[fn.sent]) /\ fn.json_resp = fn.sent
    /\ \A i \in 1..fn.sent :
           IF Succeeds(fn.attempts[i]) THEN fn.checks[i] = 0 ELSE fn.checks[i] >= 1
    /\ fn.raised = "ValueError" =>
           fn.sent = 2 /\ ~Succeeds(fn.attempts[1]) /\ ~Succeeds(fn.attempts[2])
    /\ fn.sent = 2 /\ ~Succeeds(fn.attempts[2]) /\ fn.pc \notin {"check", "count"} =>
           fn.pc = "raised"

\* C40: get_request always terminates; it sends the request at most twice,
\* returns the response of the first attempt that succeeds, calls
\* check_connection after each failed attempt, and raises after the second
\* consecutive failure.
C40_EndsWithinTwoAttempts == []RequestSafe /\ <>RequestEnded

\* C40 happens: the first attempt failed, check_connection used up its
\* retries, and the response of the second attempt was returned.
C40_SecondResponseReturned ==
    /\ fn.pc = "returned"
    /\ fn.sent = 2
    /\ fn.json_resp = 2
    /\ fn.retries > MAX_RETRIES
    /\ fn.checks = <<1, 0>>

====
